---- MODULE Spec2Model ----
(***************************************************************************)
(* MoodMovieBot: the recommendation pipeline of streamlit_app.py and its   *)
(* tools, as a state machine over one Streamlit session.                   *)
(*                                                                         *)
(* Strings are TLA+ strings; the Python string operations the code uses    *)
(* (lower, strip, split, title, "in") are computed character by character. *)
(* Numbers with decimals are integers in a fixed unit: scores in           *)
(* millionths (Micro) before rounding and in hundredths after round(x, 2). *)
(* Time is in seconds.                                                     *)
(***************************************************************************)
EXTENDS Integers, Sequences, FiniteSets, TLC

VARIABLES
    messages,               \* st.session_state.messages
    pending_confirmation,   \* st.session_state.pending_confirmation
    current_mood,           \* st.session_state.current_mood
    recommendations,        \* st.session_state.recommendations
    preferred_genres,       \* st.session_state.preferred_genres
    disliked_genres,        \* st.session_state.disliked_genres
    conversation_count,     \* st.session_state.conversation_count
    cache,                  \* the cache_* entries of st.session_state
    now,                    \* datetime.now(), in seconds
    rng,                    \* state of Python's module-level random generator
    turn,                   \* what the latest handle_user_input run did
    srch,                   \* what the latest search_by_genres call did
    probe                   \* what the latest direct call of a tool did

vars == <<messages, pending_confirmation, current_mood, recommendations,
          preferred_genres, disliked_genres, conversation_count, cache, now,
          rng, turn, srch, probe>>

-----------------------------------------------------------------------------
(* Python string operations *)

Ch(s, i) == SubSeq(s, i, i)

\* pattern in text
Contains(s, p) ==
    \E i \in 1..(Len(s) - Len(p) + 1) : SubSeq(s, i, i + Len(p) - 1) = p

AnyIn(s, words) == \E w \in words : Contains(s, w)

UpperLetters == <<"A","B","C","D","E","F","G","H","I","J","K","L","M",
                  "N","O","P","Q","R","S","T","U","V","W","X","Y","Z">>
LowerLetters == <<"a","b","c","d","e","f","g","h","i","j","k","l","m",
                  "n","o","p","q","r","s","t","u","v","w","x","y","z">>

IsUpper(c) == \E k \in 1..26 : UpperLetters[k] = c
IsLower(c) == \E k \in 1..26 : LowerLetters[k] = c
IsLetter(c) == IsUpper(c) \/ IsLower(c)
IsSpace(c) == c \in {" ", "\t", "\n", "\r"}

LowerChar(c) ==
    IF IsUpper(c) THEN LowerLetters[CHOOSE k \in 1..26 : UpperLetters[k] = c] ELSE c
UpperChar(c) ==
    IF IsLower(c) THEN UpperLetters[CHOOSE k \in 1..26 : LowerLetters[k] = c] ELSE c

\* str.lower(), computed on the two halves of the text
RECURSIVE Lower(_)
Lower(s) ==
    IF Len(s) = 0 THEN ""
    ELSE IF Len(s) = 1 THEN LowerChar(s)
    ELSE Lower(SubSeq(s, 1, Len(s) \div 2)) \o Lower(SubSeq(s, (Len(s) \div 2) + 1, Len(s)))

RECURSIVE TitleFrom(_, _, _)
TitleFrom(s, i, prevCased) ==
    IF i > Len(s) THEN ""
    ELSE LET c == Ch(s, i)
         IN  (IF prevCased THEN LowerChar(c) ELSE UpperChar(c))
             \o TitleFrom(s, i + 1, IsLetter(c))
\* str.title()
Title(s) == TitleFrom(s, 1, FALSE)

RECURSIVE LStrip(_)
LStrip(s) == IF Len(s) > 0 /\ IsSpace(Ch(s, 1)) THEN LStrip(SubSeq(s, 2, Len(s))) ELSE s
RECURSIVE RStrip(_)
RStrip(s) ==
    IF Len(s) > 0 /\ IsSpace(Ch(s, Len(s))) THEN RStrip(SubSeq(s, 1, Len(s) - 1)) ELSE s
\* str.strip()
Strip(s) == RStrip(LStrip(s))

\* len(s.split()): the number of maximal runs of non-whitespace characters
WordCount(s) ==
    Cardinality({i \in 1..Len(s) :
        /\ ~IsSpace(Ch(s, i))
        /\ (i = 1 \/ IsSpace(Ch(s, i - 1)))})

\* seq[:n]
Take(seq, n) == SubSeq(seq, 1, IF Len(seq) < n THEN Len(seq) ELSE n)

Range(seq) == {seq[i] : i \in 1..Len(seq)}

\* s.find(p, start), 1-based, with 0 for Python's -1
Find(s, p, start) ==
    LET hits == {i \in start..(Len(s) - Len(p) + 1) : SubSeq(s, i, i + Len(p) - 1) = p}
    IN  IF hits = {} THEN 0 ELSE CHOOSE i \in hits : \A j \in hits : i <= j

\* s.rfind(p), 1-based, with 0 for Python's -1
RFind(s, p) ==
    LET hits == {i \in 1..(Len(s) - Len(p) + 1) : SubSeq(s, i, i + Len(p) - 1) = p}
    IN  IF hits = {} THEN 0 ELSE CHOOSE i \in hits : \A j \in hits : j <= i

\* s[i:] with i 1-based
From(s, i) == SubSeq(s, i, Len(s))

\* re.sub(open + '.*?' + close, '', s, flags=re.DOTALL | re.IGNORECASE)
\* s.lower().find(p, start) for a lower-case p
FindNoCase(s, p, start) ==
    LET hits == {i \in start..(Len(s) - Len(p) + 1) :
                    Lower(SubSeq(s, i, i + Len(p) - 1)) = p}
    IN  IF hits = {} THEN 0 ELSE CHOOSE i \in hits : \A j \in hits : i <= j

\* re.sub(open + '.*?' + close, '', s, flags=re.DOTALL | re.IGNORECASE)
RECURSIVE RemoveTagged(_, _, _)
RemoveTagged(s, open, close) ==
    LET i == FindNoCase(s, open, 1)
        j == IF i = 0 THEN 0 ELSE FindNoCase(s, close, i + Len(open))
    IN  IF j = 0 THEN s
        ELSE SubSeq(s, 1, i - 1) \o RemoveTagged(From(s, j + Len(close)), open, close)

\* the brace counting loop from the opening brace at start: the position of
\* the first closing brace at which the count returns to zero, 0 when none
MatchingBrace(s, start) ==
    LET opened(j) == Cardinality({i \in start..j : Ch(s, i) = "{"})
        closed(j) == Cardinality({i \in start..j : Ch(s, i) = "}"})
        hits == {j \in start..Len(s) : Ch(s, j) = "}" /\ opened(j) = closed(j)}
    IN  IF start = 0 \/ hits = {} THEN 0 ELSE CHOOSE j \in hits : \A i \in hits : j <= i

RECURSIVE SelectSeqBy(_, _)
\* [x for x in seq if keep[x]] with keep given as the set of kept positions
SelectSeqBy(seq, keep) ==
    IF seq = <<>> THEN <<>>
    ELSE LET rest == SelectSeqBy(Tail(seq), {i - 1 : i \in keep \ {1}})
         IN  IF 1 \in keep THEN <<Head(seq)>> \o rest ELSE rest

-----------------------------------------------------------------------------
(* ui/chat_components.py: the confirmation gate's classifiers *)

\* variant of is_new_search_request that recognises no phrase
never_new_search(user_input) == FALSE

new_search_patterns ==
    {"cari film lain", "cari lagi", "film lain", "rekomendasi lain", "yang lain",
     "cari yang lain", "cari film lainnya", "film lainnya", "rekomendasi lainnya",
     "cari lagi film", "cari film baru", "film baru", "rekomendasi baru",
     "cari film yang lain", "tolong cari", "bisa cari", "bisa cari film",
     "cari film", "cari film lain dong", "cari film lain lagi"}

is_new_search_request(user_input) ==
    AnyIn(Strip(Lower(user_input)), new_search_patterns)

positive_keywords ==
    {"ya", "yup", "yes", "ok", "oke", "baik", "silahkan", "tampilkan", "mau", "ingin"}
cari_confirm_words == {"ya", "ok", "oke", "baik", "saja", "sih"}
negative_keywords == {"tidak", "no", "nope", "skip", "lewati", "tidak mau", "enggak"}
change_keywords == {"ubah", "ganti", "change", "lain", "beda", "bisa", "boleh"}
genre_keywords ==
    {"action", "comedy", "drama", "horror", "romance", "thriller", "sci-fi", "fantasy"}

\* variant of parse_confirmation_response that tests the negative keywords
\* before the positive ones
negative_first_response(user_input) ==
    LET user_lower == Strip(Lower(user_input))
    IN  IF is_new_search_request(user_input) THEN "none"
        ELSE IF AnyIn(user_lower, negative_keywords) THEN "no"
        ELSE IF AnyIn(user_lower, positive_keywords) THEN "yes"
        ELSE IF AnyIn(user_lower, change_keywords) THEN "change"
        ELSE IF AnyIn(user_lower, genre_keywords) THEN "change"
        ELSE "none"

\* 'yes', 'no', 'change', or "none" for Python's None
parse_confirmation_response(user_input) ==
    LET user_lower == Strip(Lower(user_input))
    IN  IF is_new_search_request(user_input) THEN "none"
        ELSE IF AnyIn(user_lower, positive_keywords) THEN "yes"
        ELSE IF /\ Contains(user_lower, "cari")
                /\ WordCount(user_lower) <= 3
                /\ AnyIn(user_lower, cari_confirm_words) THEN "yes"
        ELSE IF AnyIn(user_lower, negative_keywords) THEN "no"
        ELSE IF AnyIn(user_lower, change_keywords) THEN "change"
        ELSE IF AnyIn(user_lower, genre_keywords) THEN "change"
        ELSE "none"

-----------------------------------------------------------------------------
(* tools/mood_analyzer.py: the rule-based fallback *)

Judgment(moods, intensity, emotion, summary, genres) ==
    [detected_moods |-> moods, intensity_score |-> intensity,
     emotion_type |-> emotion, summary |-> summary,
     recommended_genres |-> genres, user_input |-> ""]

grief_words == {"meninggal", "wafat", "berpulang", "tiada", "pergi", "hilang",
                "kehilangan", "kematian", "mati"}
sickness_words == {"sakit", "pusing", "demam", "flu", "batuk", "pilek"}
tiredness_words == {"capek", "lelah", "tired", "penat", "letih"}
sadness_words == {"sedih", "sad", "galau", "murung", "terpuruk", "down", "depresi",
                  "putus asa"}
happiness_words == {"senang", "happy", "gembira", "bahagia", "joy", "excited", "semangat"}
anger_words == {"marah", "kesal", "frustrasi", "jengkel", "geram", "angry", "mad"}
anxiety_words == {"cemas", "khawatir", "anxiety", "worried", "takut", "nervous"}
boredom_words == {"bosan", "boring", "monoton", "jenuh"}

\* variant of _fallback_analysis that skips the keyword table
neutral_analysis(text) ==
    Judgment(<<"netral">>, 50, "neutral", "", <<"Comedy", "Drama", "Adventure">>)

\* variant of _fallback_analysis that looks for sadness before grief
sadness_first_analysis(text) ==
    IF AnyIn(Lower(text), sadness_words) THEN
        Judgment(<<"sedih">>, 75, "negative",
                 "Ada yang mengganjal ya? Film yang tepat bisa bantu memperbaiki mood.",
                 <<"Comedy", "Animation", "Drama", "Family">>)
    ELSE IF AnyIn(Lower(text), grief_words) THEN
        Judgment(<<"sedih", "sakit">>, 95, "negative",
                 "Saya turut berduka cita. Semoga Anda dan keluarga diberi kekuatan di masa sulit ini.",
                 <<"Drama", "Family", "Animation", "Fantasy">>)
    ELSE neutral_analysis(text)

_fallback_analysis(text) ==
    LET text_lower == Lower(text)
    IN  IF AnyIn(text_lower, grief_words) THEN
            Judgment(<<"sedih", "sakit">>, 95, "negative",
                     "Saya turut berduka cita. Semoga Anda dan keluarga diberi kekuatan di masa sulit ini.",
                     <<"Drama", "Family", "Animation", "Fantasy">>)
        ELSE IF AnyIn(text_lower, sickness_words) THEN
            Judgment(<<"sakit", "lelah">>, 70, "negative",
                     "Semoga lekas sembuh ya! Istirahat yang cukup dan jaga kesehatan.",
                     <<"Comedy", "Animation", "Family">>)
        ELSE IF AnyIn(text_lower, tiredness_words) THEN
            Judgment(<<"lelah">>, 65, "negative",
                     "Sepertinya butuh istirahat nih. Yuk santai dengan film ringan!",
                     <<"Comedy", "Family", "Animation">>)
        ELSE IF AnyIn(text_lower, sadness_words) THEN
            Judgment(<<"sedih">>, 75, "negative",
                     "Ada yang mengganjal ya? Film yang tepat bisa bantu memperbaiki mood.",
                     <<"Comedy", "Animation", "Drama", "Family">>)
        ELSE IF AnyIn(text_lower, happiness_words) THEN
            Judgment(<<"senang", "excited">>, 80, "positive",
                     "Senang banget! Mood bagus nih, cocok nonton film seru!",
                     <<"Adventure", "Comedy", "Action", "Animation">>)
        ELSE IF AnyIn(text_lower, anger_words) THEN
            Judgment(<<"marah", "frustrasi">>, 70, "negative",
                     "Tenang dulu ya. Film yang menghibur bisa bantu meredakan emosi.",
                     <<"Comedy", "Action", "Adventure">>)
        ELSE IF AnyIn(text_lower, anxiety_words) THEN
            Judgment(<<"cemas">>, 65, "negative",
                     "Jangan terlalu khawatir. Film yang menenangkan bisa membantu.",
                     <<"Drama", "Family", "Animation", "Fantasy">>)
        ELSE IF AnyIn(text_lower, boredom_words) THEN
            Judgment(<<"bosan">>, 55, "neutral",
                     "Wah, butuh sesuatu yang seru nih! Yuk cari film yang menarik!",
                     <<"Action", "Adventure", "Thriller", "Comedy">>)
        ELSE
            Judgment(<<"netral">>, 50, "neutral",
                     "Baik, saya siap membantu menemukan film yang cocok untukmu!",
                     <<"Comedy", "Drama", "Adventure">>)

-----------------------------------------------------------------------------
(* utils/genre_utils.py: the genre codec *)

\* GENRE_MAP, in the dict's insertion order
GENRE_MAP ==
    << <<"action", 28>>, <<"adventure", 12>>, <<"animation", 16>>, <<"comedy", 35>>,
       <<"crime", 80>>, <<"documentary", 99>>, <<"drama", 18>>, <<"family", 10751>>,
       <<"fantasy", 14>>, <<"history", 36>>, <<"horror", 27>>, <<"music", 10402>>,
       <<"mystery", 9648>>, <<"romance", 10749>>, <<"science fiction", 878>>,
       <<"sci-fi", 878>>, <<"thriller", 53>>, <<"war", 10752>>, <<"western", 37>> >>

\* GENRE_MAP.get(key): the id, or 0 for None (no id of the map is 0)
GenreMapGet(key) ==
    IF \E k \in 1..Len(GENRE_MAP) : GENRE_MAP[k][1] = key
    THEN GENRE_MAP[CHOOSE k \in 1..Len(GENRE_MAP) : GENRE_MAP[k][1] = key][2]
    ELSE 0

\* GENRE_ID_TO_NAME = {v: k for k, v in GENRE_MAP.items()}: the last key of an id wins
GENRE_ID_TO_NAME(id) ==
    LET ks == {k \in 1..Len(GENRE_MAP) : GENRE_MAP[k][2] = id}
    IN  IF ks = {} THEN "unknown"
        ELSE GENRE_MAP[CHOOSE k \in ks : \A j \in ks : j <= k][1]

genre_names_to_ids(names) ==
    LET ids == [i \in 1..Len(names) |-> GenreMapGet(Lower(names[i]))]
    IN  SelectSeqBy(ids, {i \in 1..Len(names) : ids[i] # 0})

genre_ids_to_names(ids) ==
    [i \in 1..Len(ids) |-> Title(GENRE_ID_TO_NAME(ids[i]))]

\* the keys of GENRE_MAP in title case, before sorting
TitledGenreKeys == [k \in 1..Len(GENRE_MAP) |-> Title(GENRE_MAP[k][1])]

-----------------------------------------------------------------------------
(* Python built-ins used by the tools *)

\* code-point order of the characters that occur in genre names and limits
CharOrder == " '-0123456789ABCDEFGHIJKLMNOPQRSTUVWXYZ_abcdefghijklmnopqrstuvwxyz"

Ord(c) ==
    IF \E k \in 1..Len(CharOrder) : Ch(CharOrder, k) = c
    THEN CHOOSE k \in 1..Len(CharOrder) : Ch(CharOrder, k) = c
    ELSE 0

\* s < t for Python str
RECURSIVE StrLess(_, _)
StrLess(s, t) ==
    IF Len(t) = 0 THEN FALSE
    ELSE IF Len(s) = 0 THEN TRUE
    ELSE IF Ch(s, 1) = Ch(t, 1)
         THEN StrLess(SubSeq(s, 2, Len(s)), SubSeq(t, 2, Len(t)))
         ELSE Ord(Ch(s, 1)) < Ord(Ch(t, 1))

\* sorted(names): insertion keeps equal items in their original order
RECURSIVE InsertName(_, _)
InsertName(x, seq) ==
    IF Len(seq) = 0 THEN <<x>>
    ELSE IF StrLess(x, seq[1]) THEN <<x>> \o seq
    ELSE <<seq[1]>> \o InsertName(x, Tail(seq))

RECURSIVE SortNamesFrom(_, _, _)
SortNamesFrom(seq, i, acc) ==
    IF i > Len(seq) THEN acc
    ELSE SortNamesFrom(seq, i + 1, InsertName(seq[i], acc))

sorted(names) == SortNamesFrom(names, 1, <<>>)

\* sep.join(items)
RECURSIVE Join(_, _)
Join(items, sep) ==
    IF Len(items) = 0 THEN ""
    ELSE IF Len(items) = 1 THEN items[1]
    ELSE items[1] \o sep \o Join(Tail(items), sep)

Digits == "0123456789"

\* str(n) for n >= 0
RECURSIVE IntToStr(_)
IntToStr(n) ==
    IF n < 10 THEN Ch(Digits, n + 1)
    ELSE IntToStr(n \div 10) \o Ch(Digits, (n % 10) + 1)

\* repr of a list of str, as an f-string prints it
RECURSIVE ReprItems(_)
ReprItems(items) ==
    IF Len(items) = 0 THEN ""
    ELSE IF Len(items) = 1 THEN "'" \o items[1] \o "'"
    ELSE "'" \o items[1] \o "', " \o ReprItems(Tail(items))

ReprList(items) == "[" \o ReprItems(items) \o "]"

HexDigits == "0123456789abcdefABCDEF"

IsHex(s) ==
    /\ Len(s) > 0
    /\ \A i \in 1..Len(s) : \E k \in 1..Len(HexDigits) : Ch(HexDigits, k) = Ch(s, i)

\* get_all_genre_names of utils/genre_utils.py: the options of the
\* preferences editor
get_all_genre_names == sorted(TitledGenreKeys)

\* hashlib.md5(s.encode()).hexdigest()[:12] for the context strings that
\* handle_movie_search can build from the judgments of this model
Md5Hex12(s) ==
    CASE s = "['sedih', 'sakit']-95-['Drama', 'Family', 'Animation', 'Fantasy']" -> "78efd4ef1b2f"
      [] s = "['sakit', 'lelah']-70-['Comedy', 'Animation', 'Family']" -> "ffe4a33b4d54"
      [] s = "['lelah']-65-['Comedy', 'Family', 'Animation']" -> "1b63d0e10e56"
      [] s = "['sedih']-75-['Comedy', 'Animation', 'Drama', 'Family']" -> "4423cd4c0296"
      [] s = "['senang', 'excited']-80-['Adventure', 'Comedy', 'Action', 'Animation']" -> "ae817dd414e6"
      [] s = "['marah', 'frustrasi']-70-['Comedy', 'Action', 'Adventure']" -> "65e9f50ea846"
      [] s = "['cemas']-65-['Drama', 'Family', 'Animation', 'Fantasy']" -> "36902148db2c"
      [] s = "['bosan']-55-['Action', 'Adventure', 'Thriller', 'Comedy']" -> "542265d3c767"
      [] s = "['netral']-50-['Comedy', 'Drama', 'Adventure']" -> "a919bd937346"
      [] s = "['senang']-80-['Horror', 'Science Fiction']" -> "77799127b03e"
      [] OTHER -> "md5-untabled"

\* the generator before any random.seed call of this process
UnseededRng == [seed |-> "os", pos |-> 0]

\* random.seed(int(h, 16)): the generator is identified by the seed's digits
SeededRng(h) == [seed |-> Lower(h), pos |-> 0]

\* round(random.uniform(-0.1, 0.1) * 10^6) for the k-th draw after
\* random.seed(int(seed, 16)); the unseeded generator's draws are not known
UniformDraws(seed) ==
    CASE seed = "00ff00ff" -> <<58216, 39023, -58746, 69055, 6372, 71423, 62917, 66515>>
      [] seed = "0f0f0f0f" -> <<-83214, -30067, 20616, -64984, -21679, 10981, -75362, -56695>>
      [] seed = "1b63d0e1" -> <<68734, 32918, 40697, -21960, -82294, 40012, -76765, 38105>>
      [] seed = "36902148" -> <<12013, -19914, -54680, -50672, 34457, -49595, -16751, 26806>>
      [] seed = "4423cd4c" -> <<-14156, -16330, -40664, -58895, 100, -78163, 96895, 67781>>
      [] seed = "542265d3" -> <<78148, -23885, 30827, -29214, 89991, -83562, -96316, 51055>>
      [] seed = "65e9f50e" -> <<-99450, 4022, 18349, 74285, -35605, -90195, 58146, -98092>>
      [] seed = "77799127" -> <<-7020, -96664, -38976, 42599, 39986, -25559, -82094, -6502>>
      [] seed = "78efd4ef" -> <<8626, 29021, -83199, -86018, 79361, 21018, -13222, -16705>>
      [] seed = "a1b2c3d4" -> <<16203, -56085, 32663, 18653, 44282, -80248, 6696, 47414>>
      [] seed = "a919bd93" -> <<30056, 893, 84698, -76425, -75410, -38534, 85110, 30149>>
      [] seed = "ae817dd4" -> <<126, -74466, 93382, -69272, 23468, 57848, -1940, 93483>>
      [] seed = "ffe4a33b" -> <<71926, 70688, 57275, -57022, 28055, 77775, 38258, -73872>>
      [] OTHER -> <<41000, -37000, 9000, -88000, 63000, -12000, 77000, -51000>>

uniform(g) == UniformDraws(g.seed)[(g.pos % 8) + 1]

\* round(x, 2) of x given in millionths: the result is in hundredths
round2(micro) ==
    LET q == micro \div 10000
        r == micro % 10000
    IN  IF r > 5000 THEN q + 1
        ELSE IF r < 5000 THEN q
        ELSE IF q % 2 = 0 THEN q ELSE q + 1

Min(a, b) == IF a < b THEN a ELSE b

-----------------------------------------------------------------------------
(* utils/cache_utils.py: StreamlitCache over st.session_state *)

\* the md5 of the JSON of prefix and args is taken as the pair itself
_get_cache_key(prefix, key) == <<prefix, key>>

EmptyCache == [k \in {} |-> [value |-> <<>>, created_at |-> 0, expires_at |-> 0]]

\* variant of CacheExpired that also expires an entry at its expiry time
expired_at_expiry(c, k, t) == k \in DOMAIN c /\ t >= c[k].expires_at

\* "now > expires_at" on a stored entry
CacheExpired(c, k, t) == k \in DOMAIN c /\ t > c[k].expires_at

\* variant of CacheLive that finds no entry live
never_live(c, k, t) == FALSE

CacheLive(c, k, t) == k \in DOMAIN c /\ ~(t > c[k].expires_at)

\* the session state after StreamlitCache.get: an expired entry is deleted
CacheAfterGet(c, prefix, key, t) ==
    LET k == _get_cache_key(prefix, key)
    IN  IF CacheExpired(c, k, t) THEN [x \in DOMAIN c \ {k} |-> c[x]] ELSE c

\* StreamlitCache.set
CacheSet(c, prefix, value, ttl_seconds, key, t) ==
    LET k == _get_cache_key(prefix, key)
    IN  [x \in DOMAIN c \cup {k} |->
            IF x = k
            THEN [value |-> value, created_at |-> t, expires_at |-> t + ttl_seconds]
            ELSE c[x]]

\* StreamlitCache.get: the value, <<>> for None, and the session state
\* afterwards
StreamlitCache_get(c, prefix, key, t) ==
    [value |-> IF CacheLive(c, _get_cache_key(prefix, key), t)
               THEN <<c[_get_cache_key(prefix, key)].value>> ELSE <<>>,
     cache |-> CacheAfterGet(c, prefix, key, t)]

\* json.dumps of a str: quotes and backslashes are escaped
RECURSIVE JsonString(_)
JsonString(s) ==
    IF Len(s) = 0 THEN ""
    ELSE (IF Ch(s, 1) \in {"\"", "\\"} THEN "\\" \o Ch(s, 1) ELSE Ch(s, 1))
             \o JsonString(SubSeq(s, 2, Len(s)))

\* the text whose md5 names the entry:
\* json.dumps({"prefix": prefix, "args": args, "kwargs": kwargs}, sort_keys=True)
key_data(prefix, key) ==
    "{\"args\": [\"" \o JsonString(key) \o "\"], \"kwargs\": {}, \"prefix\": \""
        \o JsonString(prefix) \o "\"}"

MovieSearchTTL == 3600
MoodAnalysisTTL == 1800
ReviewSummaryTTL == 7200

-----------------------------------------------------------------------------
(* core/qdrant_manager.py and core/embedding_manager.py over a small *)
(* collection. vote_average is in tenths, similarity_score in hundredths. *)

\* similarity_score of a payload that did not come from a similarity search
NoScore == -1

Payload(title, tmdb_id, genre_ids, vote_average, popularity, vote_count, raw_reviews) ==
    [title |-> title, tmdb_id |-> tmdb_id, genre_ids |-> genre_ids,
     vote_average |-> vote_average, popularity |-> popularity,
     vote_count |-> vote_count, raw_reviews |-> raw_reviews,
     similarity_score |-> NoScore]

\* the points of the collection in scroll order; tmdb_id 0 and title ""
\* stand for a payload without that field
Collection ==
    << Payload("A", 42, <<35>>, 72, 50, 800, <<"seru dan lucu">>),
       Payload("B", 7, <<35, 10751>>, 65, 20, 1500, <<>>),
       Payload("C", 3, <<16, 878>>, 80, 90, 400, <<>>),
       Payload("D", 0, <<18>>, 70, 10, 100, <<>>),
       Payload("", 9, <<18>>, 60, 10, 100, <<>>),
       Payload("F", 13, <<27>>, 55, 30, 2000, <<>>) >>

\* point.score of the similarity search, by tmdb_id
PointScore(m) ==
    CASE m.tmdb_id = 42 -> 41
      [] m.tmdb_id = 7 -> 83
      [] m.tmdb_id = 3 -> 57
      [] OTHER -> 35

\* MatchAny(any=genre_ids) on the payload's genre_ids
MatchAny(m, genre_ids) == Range(m.genre_ids) \cap Range(genre_ids) # {}

\* QdrantManager.search_by_genres; store_ok is FALSE when client.scroll raises
qdrant_search_by_genres(genre_ids, limit, store_ok) ==
    IF ~store_ok \/ Len(genre_ids) = 0 THEN <<>>
    ELSE Take(SelectSeq(Collection, LAMBDA m : MatchAny(m, genre_ids)), limit)

RECURSIVE InsertBySimilarity(_, _)
InsertBySimilarity(x, seq) ==
    IF Len(seq) = 0 THEN <<x>>
    ELSE IF x.similarity_score > seq[1].similarity_score THEN <<x>> \o seq
    ELSE <<seq[1]>> \o InsertBySimilarity(x, Tail(seq))

RECURSIVE NearestFirst(_, _, _)
NearestFirst(seq, i, acc) ==
    IF i > Len(seq) THEN acc
    ELSE NearestFirst(seq, i + 1, InsertBySimilarity(seq[i], acc))

\* QdrantManager.search_by_semantic; store_ok is FALSE when
\* client.query_points raises
search_by_semantic(genre_ids, limit, store_ok) ==
    IF ~store_ok THEN <<>>
    ELSE LET hits == SelectSeq(Collection,
                         LAMBDA m : Len(genre_ids) = 0 \/ MatchAny(m, genre_ids))
             scored == [i \in 1..Len(hits) |->
                           [hits[i] EXCEPT !.similarity_score = PointScore(hits[i])]]
         IN  Take(NearestFirst(scored, 1, <<>>), limit)

\* what EmbeddingManager.encode_query gives: "vector", "none" when it
\* returns None (blank text, or a failure it swallows), "raise" when
\* get_embedding_manager raises
EmbedOutcomes == {"vector", "none", "raise"}

encode_query(text, outcome) == IF Strip(text) = "" THEN "none" ELSE outcome

-----------------------------------------------------------------------------
(* tools/movie_search.py *)

\* rating * 0.7 + popularity * 0.003 + min(vote_count / 1000, 1.0) * 0.5,
\* in millionths
\* a candidate that is not a mapping is the record [not_a_dict |-> its text]
is_dict(movie) == "not_a_dict" \notin DOMAIN movie

rating_score(movie) ==
    movie.vote_average * 70000 + movie.popularity * 3000
        + Min(movie.vote_count, 1000) * 500

\* semantic_score * 0.6 + rating_score * 0.4 when the payload carries a
\* positive similarity and semantic scores are in use
base_score(movie, use_semantic_scores) ==
    IF use_semantic_scores /\ movie.similarity_score # NoScore
                           /\ movie.similarity_score > 0
    THEN movie.similarity_score * 60000 + (rating_score(movie) * 4) \div 10
    ELSE rating_score(movie)

\* preferred_match * 0.5 - disliked_match * 0.8, on the decoded genre names
personalization_score(movie, preferred, disliked) ==
    LET movie_genres == Range(genre_ids_to_names(movie.genre_ids))
    IN  Cardinality(movie_genres \cap Range(preferred)) * 500000
            - Cardinality(movie_genres \cap Range(disliked)) * 800000

\* the generator after the seeding block of _score_and_rank
SeedFrom(context_hash, g) ==
    IF context_hash = "" THEN g
    ELSE IF Len(context_hash) >= 8
         THEN IF IsHex(SubSeq(context_hash, 1, 8))
              THEN SeededRng(SubSeq(context_hash, 1, 8))
              ELSE g
         ELSE SeededRng("hash:" \o context_hash)

RECURSIVE InsertByScore(_, _)
InsertByScore(x, seq) ==
    IF Len(seq) = 0 THEN <<x>>
    ELSE IF x.score > seq[1].score THEN <<x>> \o seq
    ELSE <<seq[1]>> \o InsertByScore(x, Tail(seq))

\* scored.sort(key=score, reverse=True): stable
RECURSIVE SortByScore(_, _, _)
SortByScore(seq, i, acc) ==
    IF i > Len(seq) THEN acc
    ELSE SortByScore(seq, i + 1, InsertByScore(seq[i], acc))

\* variant of top that keeps the whole sorted list
top_all(scored, limit) == scored

\* scored[:limit]
top(scored, limit) == Take(scored, limit)

\* _score_and_rank after its seeding block: the ranked entries and the
\* generator afterwards. g is the process generator at the call and g0 the
\* process generator when the scoring loop draws from it.
\* original_title, year and overview are copied fields and left out.
scored_and_ranked(movies, limit, personalize, context_hash, use_semantic_scores, preferred, disliked, g, g0) ==
    LET valid_movies == SelectSeq(movies, LAMBDA m : is_dict(m) /\ m.title # "")
        variation(i) ==
            IF context_hash = "" THEN 0
            ELSE uniform([g0 EXCEPT !.pos = g0.pos + i - 1])
        final_score(i) ==
            base_score(valid_movies[i], use_semantic_scores)
                + (IF personalize
                   THEN personalization_score(valid_movies[i], preferred, disliked)
                   ELSE 0)
                + variation(i)
        scored == [i \in 1..Len(valid_movies) |->
                      [title |-> valid_movies[i].title,
                       tmdb_id |-> valid_movies[i].tmdb_id,
                       rating |-> valid_movies[i].vote_average,
                       popularity |-> valid_movies[i].popularity,
                       vote_count |-> valid_movies[i].vote_count,
                       genres |-> genre_ids_to_names(valid_movies[i].genre_ids),
                       score |-> round2(final_score(i)),
                       raw_payload |-> valid_movies[i]]]
    IN  IF Len(valid_movies) = 0
        THEN [result |-> <<>>, rng |-> g]
        ELSE [result |-> top(SortByScore(scored, 1, <<>>), limit),
              rng |-> IF context_hash = "" THEN g0
                      ELSE [g0 EXCEPT !.pos = g0.pos + Len(valid_movies)]]

\* _score_and_rank with no other thread using the random module between its
\* random.seed and its draws
_score_and_rank(movies, limit, personalize, context_hash, use_semantic_scores, preferred, disliked, g) ==
    scored_and_ranked(movies, limit, personalize, context_hash, use_semantic_scores,
                      preferred, disliked, g, SeedFrom(context_hash, g))

\* the stage of search_by_genres at which a collaborator raises
SearchFaults == {"none", "cache_get", "codec", "rank", "cache_set"}

\* the collaborators of one search. intruder is <<>>, or <<g>> when another
\* session's thread left the process generator as g between random.seed
\* and the draws of this search's ranking
SearchEnv(fault, embed, semantic_ok, filter_ok) ==
    [fault |-> fault, embed |-> embed, semantic_ok |-> semantic_ok,
     filter_ok |-> filter_ok, intruder |-> <<>>]

search_cache_key(genre_names, limit, context_hash, query_text) ==
    IF context_hash # ""
    THEN IF query_text # ""
         THEN "semantic-" \o Join(sorted(genre_names), "-") \o "-"
                  \o IntToStr(limit) \o "-" \o context_hash
         ELSE Join(sorted(genre_names), "-") \o "-" \o IntToStr(limit)
                  \o "-" \o context_hash
    ELSE Join(sorted(genre_names), "-") \o "-" \o IntToStr(limit)

Titles(movies) == [i \in 1..Len(movies) |-> movies[i].title]

\* variant of use_cached that serves the cache to personalized calls too
use_cached_regardless(cached, personalize) == Len(cached) > 0

\* variant of filter_previously_recommended that never reverts to the full list
filter_always(movies, previously_recommended, limit) ==
    SelectSeq(movies, LAMBDA m : m.title \notin previously_recommended)

\* variant of search_failed that stores the empty result under a failure key
search_failed_cached(cache1, g, log) ==
    [ret |-> <<>>,
     cache |-> CacheSet(cache1, "movie_search", <<>>, MovieSearchTTL, "failed", 0),
     rng |-> g, log |-> [log EXCEPT !.raised = TRUE]]

\* variant of filter_previously_recommended that also reverts to the full
\* list when exactly limit candidates are left
filter_reverts_at_limit(movies, previously_recommended, limit) ==
    LET filtered == SelectSeq(movies, LAMBDA m : m.title \notin previously_recommended)
    IN  IF Len(filtered) <= limit /\ Len(movies) > Len(filtered)
        THEN movies ELSE filtered

\* "if cached and not personalize": the cached list is returned
use_cached(cached, personalize) == Len(cached) > 0 /\ ~personalize

\* the list handed to the ranking: candidates outside the history, or all
\* of them when fewer than limit are left and something was excluded
filter_previously_recommended(movies, previously_recommended, limit) ==
    LET filtered == SelectSeq(movies, LAMBDA m : m.title \notin previously_recommended)
    IN  IF Len(filtered) < limit /\ Len(movies) > Len(filtered)
        THEN movies ELSE filtered

\* the except block: an empty list, nothing stored
search_failed(cache1, g, log) ==
    [ret |-> <<>>, cache |-> cache1, rng |-> g, log |-> [log EXCEPT !.raised = TRUE]]

\* MovieSearcher.search_by_genres on session state st: the returned list,
\* the cache and the generator afterwards, and a log of the call
search_by_genres(st, genre_names, limit, personalize, context_hash, query_text, env) ==
    LET cache_key == search_cache_key(genre_names, limit, context_hash, query_text)
        k == _get_cache_key("movie_search", cache_key)
        cache1 == CacheAfterGet(st.cache, "movie_search", cache_key, st.now)
        cached == IF CacheLive(st.cache, k, st.now) THEN st.cache[k].value ELSE <<>>
        genre_ids == genre_names_to_ids(genre_names)
        wants_semantic == Strip(query_text) # ""
        embedded == IF wants_semantic THEN encode_query(query_text, env.embed) ELSE "none"
        use_semantic == wants_semantic /\ embedded = "vector"
        movies == IF use_semantic
                  THEN search_by_semantic(genre_ids, 100, env.semantic_ok)
                  ELSE qdrant_search_by_genres(genre_ids, 100, env.filter_ok)
        previously_recommended ==
            {st.recommendations[i].title : i \in 1..Len(st.recommendations)} \ {""}
        filtered_movies ==
            filter_previously_recommended(movies, previously_recommended, limit)
        ranked == IF Len(env.intruder) = 0 \/ context_hash = ""
                  THEN _score_and_rank(filtered_movies, limit, personalize,
                                       context_hash, use_semantic, st.preferred_genres,
                                       st.disliked_genres, st.rng)
                  ELSE scored_and_ranked(filtered_movies, limit, personalize,
                                         context_hash, use_semantic,
                                         st.preferred_genres, st.disliked_genres,
                                         st.rng, env.intruder[1])
        log == [genre_names |-> genre_names, limit |-> limit,
                personalize |-> personalize, context_hash |-> context_hash,
                query_text |-> query_text, env |-> env, cache_key |-> cache_key,
                from_cache |-> FALSE, raised |-> FALSE,
                semantic_called |-> FALSE, filter_called |-> FALSE,
                candidates |-> <<>>, ranked_input |-> <<>>,
                history |-> previously_recommended, ret |-> <<>>]
        queried == [log EXCEPT !.semantic_called = use_semantic,
                               !.filter_called = ~use_semantic,
                               !.candidates = Titles(movies)]
    IN  IF env.fault = "cache_get"
        THEN search_failed(st.cache, st.rng, log)
        ELSE IF use_cached(cached, personalize)
        THEN [ret |-> cached, cache |-> cache1, rng |-> st.rng,
              log |-> [log EXCEPT !.from_cache = TRUE, !.ret = cached]]
        ELSE IF env.fault = "codec"
        THEN search_failed(cache1, st.rng, log)
        ELSE IF Len(genre_ids) = 0
        THEN [ret |-> <<>>, cache |-> cache1, rng |-> st.rng, log |-> log]
        ELSE IF Len(movies) = 0
        THEN [ret |-> <<>>, cache |-> cache1, rng |-> st.rng, log |-> queried]
        ELSE IF env.fault = "rank"
        THEN search_failed(cache1, st.rng,
                           [queried EXCEPT !.ranked_input = Titles(filtered_movies)])
        ELSE IF ~personalize /\ Len(ranked.result) > 0 /\ env.fault = "cache_set"
        THEN search_failed(cache1, ranked.rng,
                           [queried EXCEPT !.ranked_input = Titles(filtered_movies)])
        ELSE [ret |-> ranked.result,
              cache |-> IF ~personalize /\ Len(ranked.result) > 0
                        THEN CacheSet(cache1, "movie_search", ranked.result,
                                      MovieSearchTTL, cache_key, st.now)
                        ELSE cache1,
              rng |-> ranked.rng,
              log |-> [queried EXCEPT !.ranked_input = Titles(filtered_movies),
                                      !.ret = ranked.result]]

-----------------------------------------------------------------------------
(* tools/review_summarizer.py and tools/mood_analyzer.py *)

\* Python values of the raw_reviews argument: None, a list of str, a str,
\* or a value of another type given by its str() and its truth value
PyNone == [type |-> "NoneType"]
PyList(items) == [type |-> "list", items |-> items]
PyStr(text) == [type |-> "str", text |-> text]
PyOther(text, truth) == [type |-> "other", text |-> text, truth |-> truth]

\* bool(value)
PyTruthy(value) ==
    CASE value.type = "NoneType" -> FALSE
      [] value.type = "list" -> Len(value.items) > 0
      [] value.type = "str" -> value.text # ""
      [] OTHER -> value.truth

\* str(value)
PyToStr(value) ==
    CASE value.type = "NoneType" -> "None"
      [] value.type = "list" -> ReprList(value.items)
      [] OTHER -> value.text

\* the first position from start whose character is in chars, 0 when none
FindAny(s, chars, start) ==
    LET hits == {i \in start..Len(s) : Ch(s, i) \in chars}
    IN  IF hits = {} THEN 0 ELSE CHOOSE i \in hits : \A j \in hits : i <= j

\* text.split(sep)
RECURSIVE Split(_, _)
Split(text, sep) ==
    IF Find(text, sep, 1) = 0 THEN <<text>>
    ELSE <<SubSeq(text, 1, Find(text, sep, 1) - 1)>>
             \o Split(From(text, Find(text, sep, 1) + Len(sep)), sep)

\* re.split of text on a class of characters
RECURSIVE SplitAny(_, _)
SplitAny(text, chars) ==
    IF FindAny(text, chars, 1) = 0 THEN <<text>>
    ELSE <<SubSeq(text, 1, FindAny(text, chars, 1) - 1)>>
             \o SplitAny(From(text, FindAny(text, chars, 1) + 1), chars)

\* [piece.strip() for piece in pieces if piece.strip()]
StrippedNonEmpty(pieces) ==
    SelectSeq([i \in 1..Len(pieces) |-> Strip(pieces[i])], LAMBDA r : r # "")

\* the review texts that are JSON, with the value json.loads gives for them;
\* every other text of this model makes json.loads raise
JsonReviewTexts == {"[\"Bagus banget\", \"Keren abis\"]", "42"}
json_loads_reviews(text) ==
    IF text = "[\"Bagus banget\", \"Keren abis\"]"
    THEN PyList(<<"Bagus banget", "Keren abis">>)
    ELSE PyOther(text, TRUE)

\* _normalize_reviews on a non-empty str
normalize_text(text) ==
    IF text = "" \/ Lower(text) = "null" THEN <<>>
    ELSE IF text \in JsonReviewTexts
    THEN IF json_loads_reviews(text).type = "list"
         THEN StrippedNonEmpty(json_loads_reviews(text).items)
         ELSE <<text>>
    ELSE IF Contains(text, "|||") THEN StrippedNonEmpty(Split(text, "|||"))
    ELSE IF FindAny(text, {"\n", ";", "|"}, 1) # 0
    THEN StrippedNonEmpty(SplitAny(text, {"\n", ";", "|"}))
    ELSE IF Len(text) > 10 THEN <<text>> ELSE <<>>

\* ReviewSummarizer._normalize_reviews: at most six stripped, non-empty texts
_normalize_reviews(raw_reviews) ==
    IF ~PyTruthy(raw_reviews) THEN <<>>
    ELSE IF raw_reviews.type = "list" THEN Take(StrippedNonEmpty(raw_reviews.items), 6)
    ELSE IF raw_reviews.type = "str" THEN Take(normalize_text(Strip(raw_reviews.text)), 6)
    ELSE <<>>

summary_positive_words ==
    {"good", "great", "amazing", "excellent", "love", "best",
     "bagus", "keren", "mantap", "seru", "recommended"}
summary_negative_words ==
    {"bad", "poor", "boring", "waste", "disappointing",
     "jelek", "buruk", "mengecewakan", "membosankan"}

_fallback_summary(reviews) ==
    LET text_combined == Lower(Join(reviews, " "))
        positive_count == Cardinality({w \in summary_positive_words : Contains(text_combined, w)})
        negative_count == Cardinality({w \in summary_negative_words : Contains(text_combined, w)})
    IN  IF positive_count > negative_count THEN "Netizen bilang filmnya bagus banget!"
        ELSE IF negative_count > positive_count THEN "Netizen ada yang kurang suka sih..."
        ELSE "Netizen pendapatnya beragam tentang film ini."

\* what the completion capability does with a summary prompt: it raises, or
\* it answers with one of the texts of SummaryReply
SummaryReplyKinds ==
    {"sentence", "quoted", "thinking", "empty", "short", "long_sentences",
     "long_lines", "long_unbroken", "reasoning"}

\* the outcomes a typed turn is run against
SummaryOutcomes == {"sentence", "raise"}

LlmSummary == "Katanya seru banget, bikin ngakak!"

\* forty characters without a sentence end or a line break
Filler == "seru banget dan bikin nagih sampai akhir "

SummaryReply(outcome) ==
    CASE outcome = "sentence" -> LlmSummary
      [] outcome = "quoted" -> "\"" \o LlmSummary \o "\","
      [] outcome = "thinking" -> "<think>ulasan positif.</think>\n" \o LlmSummary
      [] outcome = "empty" -> ""
      [] outcome = "short" -> "Bagus."
      [] outcome = "long_sentences" ->
            "Filmnya " \o Filler \o "lho! " \o Filler \o Filler \o Filler \o Filler \o Filler
      [] outcome = "long_lines" ->
            "Filmnya " \o Filler \o "\n" \o Filler \o Filler \o Filler \o Filler \o Filler
      [] outcome = "long_unbroken" ->
            Filler \o Filler \o Filler \o Filler \o Filler \o Filler
      [] outcome = "reasoning" ->
            "Okay, let me combine the reviews. Katanya filmnya seru banget dan bikin nagih!"

\* the reasoning tags are removed, then the text is stripped (no reply of
\* this model carries a code fence)
untagged(response) ==
    Strip(RemoveTagged(RemoveTagged(RemoveTagged(Strip(response),
                                                 "<think>", "</think>"),
                                    "<reasoning>", "</reasoning>"),
                       "<thought>", "</thought>"))

\* the position of the first character of s not in chars, Len(s) + 1 when none
FirstNotIn(s, chars) ==
    LET outside == {i \in 1..Len(s) : Ch(s, i) \notin chars}
    IN  IF outside = {} THEN Len(s) + 1 ELSE CHOOSE i \in outside : \A j \in outside : i <= j

\* the position of the last character of s not in chars, 0 when none
LastNotIn(s, chars) ==
    LET outside == {i \in 1..Len(s) : Ch(s, i) \notin chars}
    IN  IF outside = {} THEN 0 ELSE CHOOSE i \in outside : \A j \in outside : j <= i

\* re.sub(r'^["\']+|[,"\']+$', '', summary)
unquoted(summary) ==
    SubSeq(SubSeq(summary, FirstNotIn(summary, {"\"", "'"}), Len(summary)), 1,
           LastNotIn(SubSeq(summary, FirstNotIn(summary, {"\"", "'"}), Len(summary)),
                     {",", "\"", "'"}))

SentenceEnds == {".", "!", "?"}

\* a summary of more than 200 characters is cut to its first sentence, else to
\* its first line when that has at most 200 characters, else to 150 characters
shortened(summary) ==
    IF Len(summary) <= 200 THEN summary
    ELSE IF FindAny(summary, SentenceEnds, 1) > 1
    THEN Strip(SubSeq(summary, 1, FindAny(summary, SentenceEnds, 1)))
    ELSE IF Len(Strip(Split(summary, "\n")[1])) > 0 /\ Len(Strip(Split(summary, "\n")[1])) <= 200
    THEN Strip(Split(summary, "\n")[1])
    ELSE Strip(SubSeq(summary, 1, 150))

reasoning_keywords == {"okay", "let", "tackle", "user", "wants", "reviews", "combine"}

\* whether one of text.lower().split()[:3] is a reasoning keyword
starts_with_reasoning(text) ==
    \E w \in Range(Take(StrippedNonEmpty(SplitAny(text, {" ", "\t", "\n", "\r"})), 3)) :
        Lower(w) \in reasoning_keywords

\* a summary that starts with reasoning is replaced by its first sentence of
\* more than 20 characters that does not (the empty pieces re.split gives
\* around its separators are skipped either way)
without_reasoning(summary) ==
    LET sentences == SelectSeq(StrippedNonEmpty(SplitAny(summary, SentenceEnds)),
                               LAMBDA x : Len(x) > 20 /\ ~starts_with_reasoning(x))
    IN  IF starts_with_reasoning(summary) /\ Len(sentences) > 0
        THEN sentences[1] ELSE summary

\* the cleaning of a reply
clean_summary(response) == without_reasoning(shortened(unquoted(untagged(response))))

\* what the cleaning makes of each reply
CleanedReply == [k \in SummaryReplyKinds |-> clean_summary(SummaryReply(k))]

\* variant of the length check that accepts every cleaned text
always_valid(summary) == TRUE

\* summary and len(summary) <= 200 and len(summary) > 10
valid_summary(summary) == Len(summary) <= 200 /\ Len(summary) > 10

\* ReviewSummarizer._generate_summary: the cleaned answer when it has a valid
\* length, the heuristic when it has not or when the call raises
_generate_summary(reviews, outcome) ==
    IF outcome # "raise" /\ valid_summary(CleanedReply[outcome])
    THEN CleanedReply[outcome] ELSE _fallback_summary(reviews)

\* str(raw_reviews)[:100] if raw_reviews else "empty"
summary_cache_key(raw_reviews) ==
    IF PyTruthy(raw_reviews)
    THEN SubSeq(PyToStr(raw_reviews), 1, Min(100, Len(PyToStr(raw_reviews))))
    ELSE "empty"

\* summarize after the cache lookup, on the reviews of the input
summarized(c, c1, t, k, cache_key, reviews, outcome) ==
    IF CacheLive(c, k, t) /\ c[k].value # ""
    THEN [summary |-> c[k].value, cache |-> c1, llm_calls |-> 0, reviews |-> <<>>]
    ELSE IF Len(reviews) = 0
    THEN [summary |-> "Belum ada ulasan.", cache |-> c1, llm_calls |-> 0,
          reviews |-> reviews]
    ELSE [summary |-> _generate_summary(reviews, outcome),
          cache |-> CacheSet(c1, "review_summary", _generate_summary(reviews, outcome),
                             ReviewSummaryTTL, cache_key, t),
          llm_calls |-> 1, reviews |-> reviews]

\* ReviewSummarizer.summarize: the summary, the cache afterwards, the calls
\* of the completion capability and the reviews it normalized
summarize(c, t, raw_reviews, outcome) ==
    summarized(c, CacheAfterGet(c, "review_summary", summary_cache_key(raw_reviews), t), t,
               _get_cache_key("review_summary", summary_cache_key(raw_reviews)),
               summary_cache_key(raw_reviews), _normalize_reviews(raw_reviews), outcome)

\* the fields _parse_response requires, in the order of the prompt's format
required_fields ==
    <<"detected_moods", "intensity_score", "emotion_type", "summary", "recommended_genres">>

\* the JSON objects a completion can hold in this model; a judgment is
\* the object with all the required fields
GoodObject ==
    [detected_moods |-> <<"senang">>, intensity_score |-> 80,
     emotion_type |-> "positive", summary |-> "Sedang bersemangat",
     recommended_genres |-> <<"Horror", "Science Fiction">>]
HighObject == [GoodObject EXCEPT !.intensity_score = 150]
LowObject == [GoodObject EXCEPT !.intensity_score = -20]
NoSummaryObject == [f \in DOMAIN GoodObject \ {"summary"} |-> GoodObject[f]]
NoIntensityObject == [f \in DOMAIN GoodObject \ {"intensity_score"} |-> GoodObject[f]]
MoodsOnlyObject == [detected_moods |-> <<"senang">>]
EmptyObject == [f \in {} |-> ""]

JsonObjects ==
    {GoodObject, HighObject, LowObject, NoSummaryObject, NoIntensityObject,
     MoodsOnlyObject, EmptyObject}

\* json.dumps of a list of str
RECURSIVE JsonItems(_)
JsonItems(items) ==
    IF Len(items) = 0 THEN ""
    ELSE IF Len(items) = 1 THEN "\"" \o items[1] \o "\""
    ELSE "\"" \o items[1] \o "\", " \o JsonItems(Tail(items))

\* json.dumps of the value of field f
JsonValue(f, v) ==
    IF f \in {"detected_moods", "recommended_genres"} THEN "[" \o JsonItems(v) \o "]"
    ELSE IF f = "intensity_score"
         THEN (IF v < 0 THEN "-" \o IntToStr(0 - v) ELSE IntToStr(v))
    ELSE "\"" \o v \o "\""

\* json.dumps(object): the text that json.loads reads back as the object
JsonDumps(object) ==
    LET present == SelectSeq(required_fields, LAMBDA f : f \in DOMAIN object)
    IN  "{" \o Join([i \in 1..Len(present) |->
                        "\"" \o present[i] \o "\": "
                            \o JsonValue(present[i], object[present[i]])], ", ")
            \o "}"

\* json.loads on the fragments the extraction can produce from LlmReply:
\* an object, another JSON value, or JSONDecodeError
json_loads(json_str) ==
    IF \E object \in JsonObjects : JsonDumps(object) = json_str
    THEN [kind |-> "object",
          value |-> CHOOSE object \in JsonObjects : JsonDumps(object) = json_str]
    ELSE IF json_str \in {"null", "42"} THEN [kind |-> "other", value |-> <<>>]
    ELSE [kind |-> "JSONDecodeError", value |-> <<>>]

\* what the completion capability answers to a mood prompt: "raise" is every
\* attempt of invoke_with_retry failing, the others are reply texts
ReplyKinds ==
    {"judgment", "thinking", "trailing", "high", "low", "no_summary",
     "no_intensity", "moods_only", "unclamped", "preamble_judgment",
     "preamble_no_summary", "preamble_moods_only", "empty", "preamble_empty", "prose",
     "truncated", "null"}

BracedPreamble == "Analisis {mood} pengguna: "

LlmReply(outcome) ==
    CASE outcome = "judgment" -> JsonDumps(GoodObject)
      [] outcome = "thinking" ->
            "<Think>mood {senang}?</think>\n" \o JsonDumps(GoodObject)
      [] outcome = "trailing" -> JsonDumps(GoodObject) \o "\nSemoga membantu!"
      [] outcome = "high" -> JsonDumps(HighObject)
      [] outcome = "low" -> JsonDumps(LowObject)
      [] outcome = "no_summary" -> JsonDumps(NoSummaryObject)
      [] outcome = "no_intensity" -> JsonDumps(NoIntensityObject)
      [] outcome = "moods_only" -> JsonDumps(MoodsOnlyObject)
      [] outcome = "unclamped" -> BracedPreamble \o JsonDumps(HighObject)
      [] outcome = "preamble_judgment" -> BracedPreamble \o JsonDumps(GoodObject)
      [] outcome = "preamble_no_summary" -> BracedPreamble \o JsonDumps(NoSummaryObject)
      [] outcome = "preamble_moods_only" -> BracedPreamble \o JsonDumps(MoodsOnlyObject)
      [] outcome = "empty" -> JsonDumps(EmptyObject)
      [] outcome = "preamble_empty" -> BracedPreamble \o JsonDumps(EmptyObject)
      [] outcome = "prose" -> "Maaf, saya tidak bisa membantu."
      [] outcome = "truncated" -> SubSeq(JsonDumps(GoodObject), 1, 60)
      [] outcome = "null" -> "null"

\* the outcomes of the completion that a typed turn is run against
MoodOutcomes == {"raise", "judgment", "unclamped"}

\* steps 1 and 2: the text is stripped and reasoning tags are removed (no
\* reply of this model carries a code fence, so step 1 replaces nothing)
clean_response(response) ==
    RemoveTagged(
        RemoveTagged(
            RemoveTagged(
                RemoveTagged(Strip(response),
                             "<think>", "</think>"),
                "<reasoning>", "</reasoning>"),
            "<thought>", "</thought>"),
        "<analysis>", "</analysis>")

\* step 3: from the first opening brace to the brace that closes it, else to
\* the last closing brace, else the whole text
extract_json(cleaned) ==
    LET first_brace == Find(cleaned, "{", 1)
        closing == MatchingBrace(cleaned, first_brace)
        rest == From(cleaned, first_brace)
    IN  IF first_brace = 0 THEN cleaned
        ELSE IF closing # 0 THEN SubSeq(cleaned, first_brace, closing)
        ELSE IF RFind(rest, "}") # 0 THEN SubSeq(rest, 1, RFind(rest, "}"))
        ELSE rest

\* step 4: the text is cut to start at a brace and to end at one, where it has them
trim_json(json_str) ==
    LET stripped == Strip(json_str)
        started == IF Len(stripped) > 0 /\ Ch(stripped, 1) # "{"
                      /\ Find(stripped, "{", 1) # 0
                   THEN From(stripped, Find(stripped, "{", 1)) ELSE stripped
    IN  IF Len(started) > 0 /\ Ch(started, Len(started)) # "}" /\ RFind(started, "}") # 0
        THEN SubSeq(started, 1, RFind(started, "}")) ELSE started

\* the dictionary a parse returns; user_input is "" until handle_user_input sets it
Parsed(object) ==
    [f \in DOMAIN object \cup {"user_input"} |->
        IF f = "user_input" THEN "" ELSE object[f]]

ParseRaised == [raised |-> TRUE, path |-> "none", result |-> <<>>]

\* the aggressive extraction: the text from the last opening brace to the
\* brace that closes it is parsed and returned as it is
aggressive_parse(response) ==
    LET last_brace == RFind(response, "{")
        potential_json == From(response, last_brace)
        end_pos == MatchingBrace(potential_json, 1)
        loaded == json_loads(SubSeq(potential_json, 1, end_pos))
    IN  IF last_brace = 0 \/ end_pos = 0 \/ loaded.kind # "object" THEN ParseRaised
        ELSE [raised |-> FALSE, path |-> "aggressive", result |-> Parsed(loaded.value)]

\* max(0, min(100, intensity_score))
clamp(intensity_score) ==
    IF intensity_score > 100 THEN 100 ELSE IF intensity_score < 0 THEN 0 ELSE intensity_score

\* [field for field in required_fields if field not in result]
missing_fields(result) == SelectSeq(required_fields, LAMBDA f : f \notin DOMAIN result)

\* step 5 and the validation on the parsed value
validated(loaded) ==
    IF loaded.kind # "object" \/ Len(missing_fields(loaded.value)) > 0 THEN ParseRaised
    ELSE [raised |-> FALSE, path |-> "primary",
          result |-> [Parsed(loaded.value) EXCEPT !.intensity_score = clamp(@)]]

\* MoodAnalyzer._parse_response: whether it raises, and otherwise the
\* dictionary it returns and the path that produced it
_parse_response(response) ==
    IF json_loads(trim_json(extract_json(clean_response(response)))).kind = "JSONDecodeError"
    THEN aggressive_parse(response)
    ELSE validated(json_loads(trim_json(extract_json(clean_response(response)))))

\* what _parse_response makes of each reply
ParsedReply == [k \in ReplyKinds |-> _parse_response(LlmReply(k))]

LlmJudgment == ParsedReply["judgment"].result

\* bool(cached) of a cached dictionary: an empty one is false. user_input is
\* "" in a dictionary that was not given the key
truthy(cached) == DOMAIN cached # {"user_input"} \/ cached.user_input # ""

\* analyze after the cache lookup (hit tells whether it found a live, non-empty
\* entry) and, on a miss, after the completion was parsed into p
analyzed(c1, hit, c, t, text, use_cache, p, outcome) ==
    IF hit
    THEN [result |-> c[_get_cache_key("mood_analysis", text)].value, cache |-> c1,
          shared |-> TRUE, llm_calls |-> 0, from_llm |-> FALSE]
    ELSE IF p.raised
    THEN [result |-> _fallback_analysis(text), cache |-> c1, shared |-> FALSE,
          llm_calls |-> IF outcome = "raise" THEN 3 ELSE 1, from_llm |-> FALSE]
    ELSE [result |-> p.result,
          cache |-> IF use_cache
                    THEN CacheSet(c1, "mood_analysis", p.result, MoodAnalysisTTL, text, t)
                    ELSE c1,
          shared |-> use_cache, llm_calls |-> 1, from_llm |-> TRUE]

\* MoodAnalyzer.analyze: the judgment, the cache afterwards, whether the
\* judgment is the object the cache holds, and the completion calls made
analyze(c, t, text, conversation_history, outcome) ==
    analyzed(IF Len(conversation_history) = 0
             THEN CacheAfterGet(c, "mood_analysis", text, t) ELSE c,
             Len(conversation_history) = 0
                 /\ CacheLive(c, _get_cache_key("mood_analysis", text), t)
                 /\ truthy(c[_get_cache_key("mood_analysis", text)].value),
             c, t, text, Len(conversation_history) = 0,
             IF outcome = "raise" THEN ParseRaised ELSE ParsedReply[outcome],
             outcome)

-----------------------------------------------------------------------------
(* core/session_manager.py. None is the empty sequence, a value v is <<v>>: *)
(* pending_confirmation and current_mood hold at most one element.          *)

\* the session state as one value, for the operators that transform it
Session ==
    [messages |-> messages, pending_confirmation |-> pending_confirmation,
     current_mood |-> current_mood, recommendations |-> recommendations,
     preferred_genres |-> preferred_genres, disliked_genres |-> disliked_genres,
     conversation_count |-> conversation_count, cache |-> cache, now |-> now,
     rng |-> rng]

\* variant of add_recommendations that appends to the history
add_recommendations_appending(s, movies) ==
    [s EXCEPT !.recommendations =
        @ \o SelectSeq(movies, LAMBDA m : m.title # ""
                                           /\ (m.tmdb_id # 0 \/ m.raw_payload.tmdb_id # 0))]

\* SessionManager.add_recommendations
add_recommendations(s, movies) ==
    LET valid_movies ==
            SelectSeq(movies, LAMBDA m : m.title # ""
                                        /\ (m.tmdb_id # 0 \/ m.raw_payload.tmdb_id # 0))
    IN  IF Len(movies) = 0 THEN s
        ELSE [s EXCEPT !.recommendations = valid_movies]

\* SessionManager.add_message; the timestamp is left out
add_message(s, role, content, metadata) ==
    LET appended == Append(s.messages,
                           [role |-> role, content |-> content, metadata |-> metadata])
    IN  [s EXCEPT !.messages =
            IF Len(appended) > 50
            THEN SubSeq(appended, Len(appended) - 49, Len(appended))
            ELSE appended]

increment_conversation(s) == [s EXCEPT !.conversation_count = @ + 1]

update_mood(s, mood_data) == [s EXCEPT !.current_mood = <<mood_data>>]

set_pending_confirmation(s, confirmation_data) ==
    [s EXCEPT !.pending_confirmation = <<confirmation_data>>]

clear_pending_confirmation(s) == [s EXCEPT !.pending_confirmation = <<>>]

\* SessionManager.update_preferences with both lists given
update_preferences(s, liked, disliked) ==
    [s EXCEPT !.preferred_genres = liked, !.disliked_genres = disliked]

clear_chat(s) ==
    [s EXCEPT !.messages = <<>>, !.conversation_count = 0,
              !.pending_confirmation = <<>>]

-----------------------------------------------------------------------------
(* streamlit_app.py *)

\* the movies of handle_movie_search with their review_summary, and the
\* cache after the summarizer calls
RECURSIVE add_review_summaries(_, _, _, _, _)
add_review_summaries(movies, c, t, outcome, acc) ==
    IF Len(movies) = 0 THEN [movies |-> acc, cache |-> c]
    ELSE LET movie == movies[1]
             raw_reviews == movie.raw_payload.raw_reviews
             r == summarize(c, t, PyList(raw_reviews), outcome)
         IN  IF Len(raw_reviews) > 0
             THEN add_review_summaries(Tail(movies), r.cache, t, outcome,
                      Append(acc, [review_summary |-> r.summary] @@ movie))
             ELSE add_review_summaries(Tail(movies), c, t, outcome,
                      Append(acc, [review_summary |-> "Belum ada review dari netizen"]
                                      @@ movie))

\* f"{detected_moods}-{intensity_score}-{recommended_genres}"
context_string(mood_result, recommended_genres) ==
    ReprList(mood_result.detected_moods) \o "-"
        \o IntToStr(mood_result.intensity_score) \o "-"
        \o ReprList(recommended_genres)

\* the query text of the similarity search; "" stands for None
search_query_text(mood_result, recommended_genres) ==
    LET genres_text == Join(recommended_genres, ", ")
        parts == (IF mood_result.user_input # "" THEN <<mood_result.user_input>> ELSE <<>>)
                 \o (IF mood_result.summary # ""
                     THEN <<"Mood: " \o mood_result.summary>> ELSE <<>>)
                 \o (IF genres_text # "" THEN <<"Looking for: " \o genres_text>> ELSE <<>>)
    IN  IF mood_result.user_input # "" \/ mood_result.summary # ""
        THEN Join(parts, ". ") ELSE ""

NoMoviesMessage ==
    "Maaf, saya tidak menemukan film yang sesuai di database. Silakan coba dengan genre lain."

\* handle_movie_search once every movie has its summary: the history is
\* replaced and the reply carries the movies
movies_processed(s, recommended_genres, search_log, done) ==
    LET processed_movies == done.movies
        response_text == "Saya menemukan " \o IntToStr(Len(processed_movies))
                             \o " film yang cocok untuk Anda dari database Qdrant!"
    IN  [s |-> clear_pending_confirmation(
                   add_message(
                       add_recommendations([s EXCEPT !.cache = done.cache],
                                           processed_movies),
                       "assistant", response_text,
                       <<[type |-> "recommendation", movies |-> processed_movies,
                          genres |-> recommended_genres]>>)),
         search |-> search_log, shown |-> processed_movies]

\* handle_movie_search once the search has returned: the messages for an
\* empty or invalid result, or the summaries, the history and the reply
movies_found(s, recommended_genres, found, summary_outcome) ==
    IF Len(found.ret) = 0
    THEN [s |-> clear_pending_confirmation(
                    add_message([s EXCEPT !.cache = found.cache, !.rng = found.rng],
                                "assistant", NoMoviesMessage, <<>>)),
          search |-> found.log, shown |-> <<>>]
    ELSE IF Len(SelectSeq(found.ret, LAMBDA m : m.title # "")) = 0
    THEN [s |-> clear_pending_confirmation(
                    add_message([s EXCEPT !.cache = found.cache, !.rng = found.rng],
                        "assistant",
                        "Maaf, tidak ada film valid yang ditemukan di database Qdrant.",
                        <<>>)),
          search |-> found.log, shown |-> <<>>]
    ELSE movies_processed([s EXCEPT !.rng = found.rng], recommended_genres, found.log,
             add_review_summaries(SelectSeq(found.ret, LAMBDA m : m.title # ""),
                                  found.cache, s.now, summary_outcome, <<>>))

\* handle_movie_search: the session afterwards, the log of its search and
\* the movies it showed
handle_movie_search(s, recommended_genres, mood_result, env, summary_outcome) ==
    movies_found(s, recommended_genres,
        search_by_genres(s, recommended_genres, 5, TRUE,
                         Md5Hex12(context_string(mood_result, recommended_genres)),
                         search_query_text(mood_result, recommended_genres), env),
        summary_outcome)

DeclineMessage ==
    "Baik, tidak masalah. Jika Anda ingin melihat rekomendasi film nanti, silakan beri tahu saya!"

ChangeMessage == "Baik, saya akan menganalisis ulang berdasarkan permintaan Anda."

confirmation_message(mood_result, recommended_genres) ==
    "**Analisis Mood:**\nMood terdeteksi: " \o Join(mood_result.detected_moods, ", ")
        \o "\nIntensitas: " \o IntToStr(mood_result.intensity_score) \o "%\n\n"
        \o mood_result.summary
        \o "\n\nBerdasarkan mood Anda, saya bisa merekomendasikan film dengan genre: "
        \o Join(recommended_genres, ", ")
        \o ". Apakah Anda ingin melihat rekomendasi film?"

\* render_mood_analysis_inline: st.progress(intensity / 100) raises for a
\* value outside [0.0, 1.0]
render_mood_analysis_inline_raises(mood_result) ==
    mood_result.intensity_score < 0 \/ mood_result.intensity_score > 100

\* str(e) of the exception st.progress raises
ErrorText == "Progress Value has invalid value [0.0, 1.0]: 1.500000"

ErrorMessage == "Maaf, terjadi kesalahan: " \o ErrorText

\* the except block of handle_user_input
turn_failed(s, log) ==
    [s |-> add_message(s, "assistant", ErrorMessage, <<>>),
     log |-> [log EXCEPT !.raised = TRUE],
     search |-> <<>>]

\* what a run of handle_user_input did
TurnLog(text, offered, is_new_search, classification) ==
    [text |-> text, offered |-> offered, is_new_search |-> is_new_search,
     classification |-> classification, analyze_calls |-> 0,
     pending_at_analyze |-> <<>>, llm_calls |-> 0, raised |-> FALSE,
     search_calls |-> 0, shown |-> <<>>]

\* the "yes" branch after handle_movie_search: the offer is cleared, return
yes_searched(hm, log) ==
    [s |-> clear_pending_confirmation(hm.s),
     log |-> [log EXCEPT !.search_calls = 1, !.shown = hm.shown],
     search |-> <<hm.search>>]

\* variant of confirm_yes that searches the default genre instead of the offer's
confirm_yes_default_genre(s, user_input, offer, env, summary_outcome, log) ==
    yes_searched(handle_movie_search(
                     increment_conversation(add_message(s, "user", user_input, <<>>)),
                     <<"Comedy">>, offer.mood_result, env, summary_outcome), log)

\* variant of confirm_no that also forgets the current mood
confirm_no_forgets_mood(s, user_input, log) ==
    [s |-> [clear_pending_confirmation(
                add_message(
                    increment_conversation(add_message(s, "user", user_input, <<>>)),
                    "assistant", DeclineMessage, <<>>))
            EXCEPT !.current_mood = <<>>],
     log |-> log, search |-> <<>>]

\* variant of confirm_change that leaves the offer pending
confirm_change_keeps_offer(s, user_input) ==
    add_message(increment_conversation(add_message(s, "user", user_input, <<>>)),
                "assistant", ChangeMessage, <<>>)

\* the "yes" branch: the user message, the search with the offer, return
confirm_yes(s, user_input, offer, env, summary_outcome, log) ==
    yes_searched(handle_movie_search(
                     increment_conversation(add_message(s, "user", user_input, <<>>)),
                     offer.genres, offer.mood_result, env, summary_outcome), log)

\* the "no" branch: the user message, the acknowledgment, return
confirm_no(s, user_input, log) ==
    [s |-> clear_pending_confirmation(
               add_message(
                   increment_conversation(add_message(s, "user", user_input, <<>>)),
                   "assistant", DeclineMessage, <<>>)),
     log |-> log, search |-> <<>>]

\* the "change" branch, which does not return: the session as it enters
\* the normal flow
confirm_change(s, user_input) ==
    clear_pending_confirmation(
        add_message(increment_conversation(add_message(s, "user", user_input, <<>>)),
                    "assistant", ChangeMessage, <<>>))

\* variant of mood_analyzed that stores the offer before the mood is rendered
mood_analyzed_offer_first(s1, user_input, a, log) ==
    LET mood_result == [a.result EXCEPT !.user_input = user_input]
        k == _get_cache_key("mood_analysis", user_input)
        cache2 == IF a.shared THEN [a.cache EXCEPT ![k].value = mood_result]
                  ELSE a.cache
        s2 == update_mood([s1 EXCEPT !.cache = cache2], mood_result)
        recommended_genres == mood_result.recommended_genres
        s3 == set_pending_confirmation(s2, [genres |-> recommended_genres,
                                            mood_result |-> mood_result])
        log1 == [log EXCEPT !.analyze_calls = 1,
                            !.pending_at_analyze = s1.pending_confirmation,
                            !.llm_calls = a.llm_calls]
    IN  IF render_mood_analysis_inline_raises(mood_result)
        THEN turn_failed(s3, log1)
        ELSE [s |-> add_message(s3, "assistant",
                        confirmation_message(mood_result, recommended_genres),
                        <<[type |-> "confirmation", genres |-> recommended_genres,
                           mood_result |-> mood_result]>>),
              log |-> log1, search |-> <<>>]

\* the try block after mood_analyzer.analyze returned a: the current mood,
\* the rendering, the offer and the confirmation message
mood_analyzed(s1, user_input, a, log) ==
    LET mood_result == [a.result EXCEPT !.user_input = user_input]
        k == _get_cache_key("mood_analysis", user_input)
        \* the judgment the cache holds is the dictionary that was just written to
        cache2 == IF a.shared THEN [a.cache EXCEPT ![k].value = mood_result]
                  ELSE a.cache
        s2 == update_mood([s1 EXCEPT !.cache = cache2], mood_result)
        recommended_genres == mood_result.recommended_genres
        s3 == set_pending_confirmation(s2, [genres |-> recommended_genres,
                                            mood_result |-> mood_result])
        log1 == [log EXCEPT !.analyze_calls = 1,
                            !.pending_at_analyze = s1.pending_confirmation,
                            !.llm_calls = a.llm_calls]
    IN  IF render_mood_analysis_inline_raises(mood_result)
        THEN turn_failed(s2, log1)
        ELSE [s |-> add_message(s3, "assistant",
                        confirmation_message(mood_result, recommended_genres),
                        <<[type |-> "confirmation", genres |-> recommended_genres,
                           mood_result |-> mood_result]>>),
              log |-> log1, search |-> <<>>]

\* the try block: mood inference with the earlier messages as history
mood_try(s1, user_input, mood_outcome, log) ==
    mood_analyzed(s1, user_input,
        analyze(s1.cache, s1.now, user_input,
                IF Len(s1.messages) > 1
                THEN SubSeq(s1.messages, 1, Len(s1.messages) - 1) ELSE <<>>,
                mood_outcome),
        log)

\* the normal flow: the user message, then the try block
mood_turn(s, user_input, mood_outcome, log) ==
    mood_try(increment_conversation(add_message(s, "user", user_input, <<>>)),
             user_input, mood_outcome, log)

\* handle_user_input after the new-search test, on the reply's classification
route_turn(s0, user_input, confirmation_response, log, mood_outcome, env, summary_outcome) ==
    IF confirmation_response = "yes"
    THEN confirm_yes(s0, user_input, s0.pending_confirmation[1], env,
                     summary_outcome, log)
    ELSE IF confirmation_response = "no"
    THEN confirm_no(s0, user_input, log)
    ELSE IF confirmation_response = "change"
    THEN mood_turn(confirm_change(s0, user_input), user_input, mood_outcome, log)
    ELSE mood_turn(s0, user_input, mood_outcome, log)

\* the reply's classification, when an offer is pending and the text is not
\* a new search
classify(s, user_input, is_new_search) ==
    IF Len(s.pending_confirmation) > 0 /\ ~is_new_search
    THEN parse_confirmation_response(user_input) ELSE "n/a"

\* handle_user_input once the new-search test is made
new_search_tested(s, user_input, is_new_search, mood_outcome, env, summary_outcome) ==
    route_turn(IF is_new_search THEN clear_pending_confirmation(s) ELSE s,
               user_input,
               classify(s, user_input, is_new_search),
               TurnLog(user_input, s.pending_confirmation, is_new_search,
                       classify(s, user_input, is_new_search)),
               mood_outcome, env, summary_outcome)

\* handle_user_input: the session afterwards, the log of the run and the
\* log of the search it made, if any
handle_user_input(s, user_input, mood_outcome, env, summary_outcome) ==
    new_search_tested(s, user_input, is_new_search_request(user_input),
                      mood_outcome, env, summary_outcome)

\* SessionManager.initialize on a new session
FreshSession ==
    [messages |-> <<>>, pending_confirmation |-> <<>>, current_mood |-> <<>>,
     recommendations |-> <<>>, preferred_genres |-> <<>>, disliked_genres |-> <<>>,
     conversation_count |-> 0, cache |-> EmptyCache, now |-> 0,
     rng |-> UnseededRng]

NoSearch ==
    [genre_names |-> <<>>, limit |-> 0, personalize |-> FALSE,
     context_hash |-> "", query_text |-> "",
     env |-> SearchEnv("none", "vector", TRUE, TRUE), cache_key |-> "",
     from_cache |-> FALSE, raised |-> FALSE, semantic_called |-> FALSE,
     filter_called |-> FALSE, candidates |-> <<>>, ranked_input |-> <<>>,
     history |-> {}, ret |-> <<>>]

NoTurn == TurnLog("", <<>>, FALSE, "n/a")

SessionIs(s) ==
    /\ messages = s.messages
    /\ pending_confirmation = s.pending_confirmation
    /\ current_mood = s.current_mood
    /\ recommendations = s.recommendations
    /\ preferred_genres = s.preferred_genres
    /\ disliked_genres = s.disliked_genres
    /\ conversation_count = s.conversation_count
    /\ cache = s.cache
    /\ now = s.now
    /\ rng = s.rng

SessionBecomes(s) ==
    /\ messages' = s.messages
    /\ pending_confirmation' = s.pending_confirmation
    /\ current_mood' = s.current_mood
    /\ recommendations' = s.recommendations
    /\ preferred_genres' = s.preferred_genres
    /\ disliked_genres' = s.disliked_genres
    /\ conversation_count' = s.conversation_count
    /\ cache' = s.cache
    /\ now' = s.now
    /\ rng' = s.rng

\* a new session
NoProbe == [op |-> "none"]

FreshInit ==
    SessionIs(FreshSession) /\ turn = NoTurn /\ srch = NoSearch /\ probe = NoProbe

-----------------------------------------------------------------------------
(* The retriever driven directly: calls of MovieSearcher.search_by_genres *)
(* with the clock advancing and results entering the history.             *)

MaxTicks == 3

\* one failure at a time, and the embedder and the filter query both failing
SearchEnvs ==
    {SearchEnv(f, "vector", TRUE, TRUE) : f \in SearchFaults}
        \cup {SearchEnv("none", e, TRUE, TRUE) : e \in EmbedOutcomes}
        \cup {SearchEnv("none", "vector", FALSE, TRUE),
              SearchEnv("none", "none", TRUE, FALSE)}

SearchGenres == {<<"Comedy">>, <<"Nope">>}
SearchLimits == {1, 5}
SearchContext == "a1b2c3d4e5f6"
SearchQueries == {"", "funny"}
OkEnv == SearchEnv("none", "vector", TRUE, TRUE)

SearchByGenres(genre_names, limit, personalize, context_hash, query_text, env) ==
    LET r == search_by_genres(Session, genre_names, limit, personalize,
                              context_hash, query_text, env)
    IN  /\ cache' = r.cache
        /\ rng' = r.rng
        /\ srch' = r.log
        /\ UNCHANGED <<messages, pending_confirmation, current_mood,
                       recommendations, preferred_genres, disliked_genres,
                       conversation_count, now, turn, probe>>

\* the caller stores what the latest search returned
AddRecommendations ==
    /\ Len(srch.ret) > 0
    /\ recommendations' = add_recommendations(Session, srch.ret).recommendations
    /\ UNCHANGED <<messages, pending_confirmation, current_mood, preferred_genres,
                   disliked_genres, conversation_count, cache, now, rng, turn, srch,
                   probe>>

PreferenceProfiles ==
    {[liked |-> <<>>, disliked |-> <<>>],
     [liked |-> <<"Comedy">>, disliked |-> <<"Family">>]}

\* SessionManager.update_preferences from the editor's Save button
UpdatePreferences(profile) ==
    /\ SessionBecomes(update_preferences(Session, profile.liked, profile.disliked))
    /\ UNCHANGED <<turn, srch, probe>>

\* time passes between two runs, in steps of the shortest TTL
Tick ==
    /\ now < MaxTicks * MoodAnalysisTTL
    /\ now' = now + MoodAnalysisTTL
    /\ UNCHANGED <<messages, pending_confirmation, current_mood, recommendations,
                   preferred_genres, disliked_genres, conversation_count, cache,
                   rng, turn, srch, probe>>

\* failures of the collaborators, the cache and the clock
SearchNext ==
    \/ \E p \in BOOLEAN, q \in SearchQueries, e \in SearchEnvs :
            SearchByGenres(<<"Comedy">>, 5, p, SearchContext, q, e)
    \/ Tick

SpecSearch == FreshInit /\ [][SearchNext]_vars

\* searches interleaved with the history and the preferences they read
DedupNext ==
    \/ \E g \in SearchGenres, l \in SearchLimits, p \in BOOLEAN, q \in SearchQueries :
            SearchByGenres(g, l, p, "", q, OkEnv)
    \/ AddRecommendations
    \/ \E profile \in PreferenceProfiles : UpdatePreferences(profile)

SpecDedup == FreshInit /\ [][DedupNext]_vars

-----------------------------------------------------------------------------
(* Accepted searches in sequence: search_by_genres as handle_movie_search  *)
(* calls it (personalized), its result stored by add_recommendations.      *)
(* probe holds the titles stored by all the accepted searches so far.      *)

HistoryGenres == {<<"Comedy">>, <<"Comedy", "Horror", "Animation">>}
HistoryLimits == {1, 2}

\* the titles stored so far, by any accepted search
EverRecommended == IF probe.op = "history" THEN probe.ever ELSE {}

AcceptedSearch(genre_names, limit) ==
    LET r == search_by_genres(Session, genre_names, limit, TRUE, "", "", OkEnv)
        stored == add_recommendations(Session, r.ret).recommendations
    IN  /\ cache' = r.cache
        /\ rng' = r.rng
        /\ srch' = r.log
        /\ recommendations' = stored
        /\ probe' = [op |-> "history", before |-> EverRecommended,
                     ever |-> EverRecommended
                                  \cup {stored[i].title : i \in 1..Len(stored)}]
        /\ UNCHANGED <<messages, pending_confirmation, current_mood, preferred_genres,
                       disliked_genres, conversation_count, now, turn>>

HistoryNext ==
    \/ \E g \in HistoryGenres, l \in HistoryLimits : AcceptedSearch(g, l)
    \/ \E profile \in PreferenceProfiles : UpdatePreferences(profile)

SpecHistory == FreshInit /\ [][HistoryNext]_vars

-----------------------------------------------------------------------------
(* The cache driven directly: StreamlitCache.get and StreamlitCache.set on *)
(* a few namespaces and keys, with the clock advancing. probe holds the    *)
(* latest call and, for every namespace and key, the latest set.           *)

MaxCacheTicks == 3
MaxCacheSets == 2

\* one key in two namespaces, and a second key of the first namespace whose
\* text imitates the end of the key data of the other namespace's entry
CacheNames ==
    {<<"movie_search", "Comedy-5">>, <<"review_summary", "Comedy-5">>,
     <<"movie_search", "Comedy-5\"], \"kwargs\": {}, \"prefix\": \"review_summary">>}

\* different namespaces and keys give different key data, so different entries
KeyDataDistinct ==
    \A n, m \in CacheNames : key_data(n[1], n[2]) = key_data(m[1], m[2]) => n = m

CacheValues == {"v1", "v2"}
CacheTTLs == {MoodAnalysisTTL, MovieSearchTTL}

\* the latest set of every namespace and key, as the harness saw it
SetsSoFar == IF probe.op \in {"get", "set"} THEN probe.sets ELSE <<>>

\* the calls of set so far
SetCalls == IF probe.op \in {"get", "set"} THEN probe.set_calls ELSE 0

CacheUnchanged ==
    UNCHANGED <<messages, pending_confirmation, current_mood, recommendations,
                preferred_genres, disliked_genres, conversation_count, rng, turn, srch>>

GetCall(name) ==
    /\ cache' = StreamlitCache_get(cache, name[1], name[2], now).cache
    /\ probe' = [op |-> "get", name |-> name, at |-> now,
                 returned |-> StreamlitCache_get(cache, name[1], name[2], now).value,
                 set_calls |-> SetCalls, sets |-> SetsSoFar]
    /\ UNCHANGED now
    /\ CacheUnchanged

SetCall(name, value, ttl_seconds) ==
    /\ SetCalls < MaxCacheSets
    /\ cache' = CacheSet(cache, name[1], value, ttl_seconds, name[2], now)
    /\ probe' = [op |-> "set", name |-> name, at |-> now, returned |-> <<>>,
                 set_calls |-> SetCalls + 1,
                 sets |-> [n \in DOMAIN SetsSoFar \cup {name} |->
                              IF n = name
                              THEN [value |-> value, at |-> now, ttl |-> ttl_seconds]
                              ELSE SetsSoFar[n]]]
    /\ UNCHANGED now
    /\ CacheUnchanged

\* time passes, in steps of the shortest TTL
CacheTick ==
    /\ now < MaxCacheTicks * MoodAnalysisTTL
    /\ now' = now + MoodAnalysisTTL
    /\ UNCHANGED <<cache, probe>>
    /\ CacheUnchanged

CacheNext ==
    \/ \E name \in CacheNames : GetCall(name)
    \/ \E name \in CacheNames, value \in CacheValues, ttl \in CacheTTLs :
           SetCall(name, value, ttl)
    \/ CacheTick

SpecCache == FreshInit /\ [][CacheNext]_vars

-----------------------------------------------------------------------------
(* Personalization: preferences saved from the editor's options, then the  *)
(* whole collection scored with and without them. probe holds the result   *)
(* under the preferences in force, and the result of the same call without *)
(* personalization and without preferences.                                *)

\* at most one liked and one disliked genre, of all the editor's options
EditorChoices ==
    {<<>>} \cup {<<get_all_genre_names[i]>> : i \in 1..Len(get_all_genre_names)}

PersonalizeContexts == {"", "a1b2c3d4e5f6"}

\* the Save button of display_preferences_editor
SavePreferences(liked, disliked) ==
    /\ SessionBecomes(update_preferences(Session, liked, disliked))
    /\ probe' = [op |-> "none"]
    /\ UNCHANGED <<turn, srch>>

ScoreCall(personalize, context_hash) ==
    /\ probe' = [op |-> "personalize", personalize |-> personalize,
                 context_hash |-> context_hash,
                 liked |-> preferred_genres, disliked |-> disliked_genres,
                 result |-> _score_and_rank(Collection, 10, personalize, context_hash,
                                            FALSE, preferred_genres, disliked_genres,
                                            UnseededRng).result,
                 plain |-> _score_and_rank(Collection, 10, FALSE, context_hash,
                                           FALSE, <<>>, <<>>, UnseededRng).result]
    /\ UNCHANGED <<messages, pending_confirmation, current_mood, recommendations,
                   preferred_genres, disliked_genres, conversation_count, cache,
                   now, rng, turn, srch>>

PersonalizeNext ==
    \/ \E liked \in EditorChoices, disliked \in EditorChoices :
           SavePreferences(liked, disliked)
    \/ \E p \in BOOLEAN, h \in PersonalizeContexts : ScoreCall(p, h)

SpecPersonalize == FreshInit /\ [][PersonalizeNext]_vars

-----------------------------------------------------------------------------
(* The ranking driven directly: calls of MovieSearcher._score_and_rank on  *)
(* candidate lists, with the module-level generator carried from call to   *)
(* call.                                                                   *)

MaxRankCalls == 3

\* what the filter query and the similarity search return for three genres,
\* the latter behind a candidate that is not a mapping
RankLists ==
    {qdrant_search_by_genres(<<35, 16, 18>>, 100, TRUE),
     <<[not_a_dict |-> "junk"]>> \o search_by_semantic(<<35, 16, 18>>, 100, TRUE)}

RankLimits == {1, 3}

\* no hash, twelve hexadecimal digits, a string that is not hexadecimal and
\* a string shorter than eight characters
RankContexts == {"", "a1b2c3d4e5f6", "not-a-hex-hash", "abc"}

RankInputs(movies, limit, personalize, context_hash, use_semantic_scores) ==
    [movies |-> movies, limit |-> limit, personalize |-> personalize,
     context_hash |-> context_hash, use_semantic_scores |-> use_semantic_scores,
     preferred |-> preferred_genres, disliked |-> disliked_genres]

\* the calls whose result is kept for comparison with later calls
IsReference(inputs) ==
    inputs.limit = 3 /\ inputs.personalize /\ inputs.use_semantic_scores

\* the call returned r: the generator moves on, the call is logged, and the
\* first reference call is kept
RankReturned(inputs, r) ==
    /\ rng' = r.rng
    /\ probe' = [op |-> "rank",
                 calls |-> IF probe.op = "rank" THEN probe.calls + 1 ELSE 1,
                 ref |-> IF probe.op = "rank" /\ probe.ref # <<>> THEN probe.ref
                         ELSE IF IsReference(inputs)
                         THEN <<[inputs |-> inputs, result |-> r.result]>>
                         ELSE <<>>,
                 inputs |-> inputs, result |-> r.result]
    /\ UNCHANGED <<messages, pending_confirmation, current_mood, recommendations,
                   preferred_genres, disliked_genres, conversation_count, cache,
                   now, turn, srch>>

RankCall(movies, limit, personalize, context_hash, use_semantic_scores) ==
    /\ probe.op = "rank" => probe.calls < MaxRankCalls
    /\ RankReturned(
           RankInputs(movies, limit, personalize, context_hash, use_semantic_scores),
           _score_and_rank(movies, limit, personalize, context_hash,
                           use_semantic_scores, preferred_genres, disliked_genres,
                           rng))

\* the session either has no saved preferences or likes Comedy and dislikes
\* Family
RankInit ==
    /\ \E profile \in PreferenceProfiles :
           SessionIs(update_preferences(FreshSession, profile.liked, profile.disliked))
    /\ turn = NoTurn
    /\ srch = NoSearch
    /\ probe = NoProbe

RankNext ==
    \E m \in RankLists, l \in RankLimits, p \in BOOLEAN, h \in RankContexts,
       u \in BOOLEAN : RankCall(m, l, p, h, u)

SpecRank == RankInit /\ [][RankNext]_vars

-----------------------------------------------------------------------------
(* The pure functions applied to given inputs: MoodAnalyzer._parse_response *)
(* on completion texts, MoodAnalyzer._fallback_analysis on user texts, the  *)
(* genre codec on lists of genre names and parse_confirmation_response on   *)
(* replies to an offer.                                                     *)

\* user texts with no keyword, one keyword, keywords of several categories,
\* capital letters, and a keyword inside a longer word
FallbackTexts ==
    {"", "halo, ada film apa?", "kucing saya mati kemarin", "Nenek MENINGGAL, saya sedih",
     "sedih karena kehilangan dompet", "marah dan kehilangan arah", "sakit kepala",
     "sakit dan capek", "capek tapi senang", "saya capek banget hari ini",
     "sedih dan marah", "sedih", "SEDIH banget", "senang tapi cemas", "happy",
     "marah karena bosan", "kesal", "cemas dan bosan", "takut", "bosan", "jenuh sekali",
     "bosan lalu sedih", "cemas lalu sakit", "sadar diri", "madu manis"}

\* the keys of GENRE_MAP
GenreKeys == {GENRE_MAP[k][1] : k \in 1..Len(GENRE_MAP)}

MaxNames == 2

\* the keys as they are, in title case, and some in other letter cases
GenreSpellings ==
    GenreKeys \cup {Title(g) : g \in GenreKeys} \cup {"COMEDY", "SCI-FI", "Science fiction"}

\* lists of distinct valid genre names
GenreNameLists ==
    {names \in UNION {[1..n -> GenreSpellings] : n \in 0..MaxNames} :
        \A i, j \in 1..Len(names) : i # j => Lower(names[i]) # Lower(names[j])}

\* replies to an offer: new-search phrases with and without a positive
\* keyword, positive keywords alone, inside a negative phrase, inside a longer
\* word and next to a change keyword, the short "cari" confirmations,
\* negative, change and genre keywords, and a reply with no keyword
ConfirmTexts ==
    {"cari film lain dong", "ya, cari film lain", "ya", "  Oke  ", "tidak mau",
     "TIDAK MAU", "tidak merokok", "boleh, tampilkan", "skip dulu ya", "cari saja",
     "cari tidak sih", "tidak", "nope", "enggak, ganti", "no drama", "lewati",
     "ganti genre", "bisa ubah?", "horror", "hmm", ""}

PureInputs ==
    {[fn |-> "_parse_response", input |-> LlmReply(k)] : k \in ReplyKinds}
        \cup {[fn |-> "_fallback_analysis", input |-> t] : t \in FallbackTexts}
        \cup {[fn |-> "genre_codec", input |-> names] : names \in GenreNameLists}
        \cup {[fn |-> "parse_confirmation_response", input |-> t] : t \in ConfirmTexts}

Given(fn) == probe.op = "given" /\ probe.fn = fn

Returned(fn) == probe.op = "returned" /\ probe.fn = fn

Returns(output) ==
    /\ probe' = [op |-> "returned", fn |-> probe.fn, input |-> probe.input,
                 output |-> output]
    /\ UNCHANGED <<messages, pending_confirmation, current_mood, recommendations,
                   preferred_genres, disliked_genres, conversation_count, cache,
                   now, rng, turn, srch>>

ParseCall == Given("_parse_response") /\ Returns(_parse_response(probe.input))

FallbackCall == Given("_fallback_analysis") /\ Returns(_fallback_analysis(probe.input))

GenreCall ==
    Given("genre_codec") /\ Returns(genre_ids_to_names(genre_names_to_ids(probe.input)))

ConfirmCall ==
    /\ Given("parse_confirmation_response")
    /\ Returns(parse_confirmation_response(probe.input))

PureInit ==
    /\ SessionIs(FreshSession)
    /\ turn = NoTurn
    /\ srch = NoSearch
    /\ \E given \in PureInputs :
           probe = [op |-> "given", fn |-> given.fn, input |-> given.input,
                    output |-> <<>>]

PureNext == ParseCall \/ FallbackCall \/ GenreCall \/ ConfirmCall

SpecPure == PureInit /\ [][PureNext]_vars

-----------------------------------------------------------------------------
(* The mood inference driven directly: calls of MoodAnalyzer.analyze with   *)
(* and without conversation history, with the clock advancing.              *)

MaxClockSteps == 3

AnalyzeTexts == {"sedih", "halo, ada film apa?"}
AnalyzeHistories == {<<>>, <<[role |-> "user", content |-> "halo"]>>}
AnalyzeOutcomes == {"raise", "judgment", "high", "prose", "preamble_empty"}

\* the entry of a key, or <<>> when the cache has none
EntryOf(c, k) == IF k \in DOMAIN c THEN <<c[k]>> ELSE <<>>

\* whether every entry but that of key k is the same in both caches
OthersKept(c1, c2, k) ==
    /\ DOMAIN c1 \ {k} = DOMAIN c2 \ {k}
    /\ \A x \in DOMAIN c1 \ {k} : c1[x] = c2[x]

\* the session and the log after analyze returned a
Analyzed(text, conversation_history, outcome, k, a) ==
    /\ cache' = a.cache
    /\ probe' = [op |-> "analyze", text |-> text,
                 conversation_history |-> conversation_history,
                 outcome |-> outcome, at |-> now,
                 entry_before |-> EntryOf(cache, k), entry_after |-> EntryOf(a.cache, k),
                 others_kept |-> OthersKept(cache, a.cache, k),
                 result |-> a.result, llm_calls |-> a.llm_calls,
                 from_llm |-> a.from_llm, from_cache |-> a.shared /\ a.llm_calls = 0]
    /\ UNCHANGED <<messages, pending_confirmation, current_mood, recommendations,
                   preferred_genres, disliked_genres, conversation_count, now,
                   rng, turn, srch>>

AnalyzeCall(text, conversation_history, outcome) ==
    Analyzed(text, conversation_history, outcome, _get_cache_key("mood_analysis", text),
             analyze(cache, now, text, conversation_history, outcome))

\* the clock advances by the time an analysis stays cached
Advance ==
    /\ now < MaxClockSteps * MoodAnalysisTTL
    /\ now' = now + MoodAnalysisTTL
    /\ UNCHANGED <<messages, pending_confirmation, current_mood, recommendations,
                   preferred_genres, disliked_genres, conversation_count, cache,
                   rng, turn, srch, probe>>

AnalyzeNext ==
    \/ \E text \in AnalyzeTexts, h \in AnalyzeHistories, outcome \in AnalyzeOutcomes :
           AnalyzeCall(text, h, outcome)
    \/ Advance

SpecAnalyze == FreshInit /\ [][AnalyzeNext]_vars

-----------------------------------------------------------------------------
(* The review summarizer driven directly: calls of                          *)
(* ReviewSummarizer.summarize on one raw input of any shape, repeated with  *)
(* the clock advancing.                                                     *)

MaxSummaryClockSteps == 3

\* None, lists (empty, of blank items, of two reviews, of seven), strings
\* (empty, blank, "null", JSON, delimited, short, plain) and other types
RawReviewInputs ==
    {PyNone, PyList(<<>>), PyList(<<"", "  ">>),
     PyList(<<"Bagus banget filmnya", " Seru abis ">>),
     PyList(<<"jelek", "buruk", "bagus", "r4", "r5", "r6", "r7">>),
     PyStr(""), PyStr("   "), PyStr("NULL"), PyStr("[\"Bagus banget\", \"Keren abis\"]"),
     PyStr("42"), PyStr("seru ||| keren abis ||| "), PyStr("jelek; buruk|bagus"),
     PyStr("bagus"), PyStr("filmnya membosankan sekali"),
     PyOther("7", TRUE), PyOther("0", FALSE), PyOther("{'ulasan': 'bagus'}", TRUE)}

\* what a repeated call meets
RepeatOutcomes == {"sentence", "raise", "empty"}

\* the session and the log after summarize returned r
Summarized(raw_reviews, outcome, k, r) ==
    /\ cache' = r.cache
    /\ probe' = [op |-> "summarize", raw_reviews |-> raw_reviews, outcome |-> outcome,
                 at |-> now, summary |-> r.summary, llm_calls |-> r.llm_calls,
                 reviews |-> _normalize_reviews(raw_reviews),
                 entry_before |-> EntryOf(cache, k), entry_after |-> EntryOf(r.cache, k),
                 prev |-> IF probe.op = "summarize"
                          THEN <<[at |-> probe.at, summary |-> probe.summary,
                                  entry_after |-> probe.entry_after]>>
                          ELSE <<>>]
    /\ UNCHANGED <<messages, pending_confirmation, current_mood, recommendations,
                   preferred_genres, disliked_genres, conversation_count, now,
                   rng, turn, srch>>

\* a first call on any input, or the same input again
SummarizeCall(raw_reviews, outcome) ==
    /\ probe.op = "summarize" => (raw_reviews = probe.raw_reviews /\ outcome \in RepeatOutcomes)
    /\ Summarized(raw_reviews, outcome,
                  _get_cache_key("review_summary", summary_cache_key(raw_reviews)),
                  summarize(cache, now, raw_reviews, outcome))

\* the clock advances by half the time a summary stays cached
AdvanceHour ==
    /\ now < MaxSummaryClockSteps * (ReviewSummaryTTL \div 2)
    /\ now' = now + (ReviewSummaryTTL \div 2)
    /\ UNCHANGED <<messages, pending_confirmation, current_mood, recommendations,
                   preferred_genres, disliked_genres, conversation_count, cache,
                   rng, turn, srch, probe>>

SummarizeNext ==
    \/ \E raw_reviews \in RawReviewInputs, outcome \in SummaryReplyKinds \cup {"raise"} :
           SummarizeCall(raw_reviews, outcome)
    \/ AdvanceHour

SpecSummarize == FreshInit /\ [][SummarizeNext]_vars

-----------------------------------------------------------------------------
(* core/llm_manager.py: LLMManager.invoke_with_retry, one step per call of  *)
(* invoke and per time.sleep. probe holds the position in the loop and the  *)
(* calls and waits made so far.                                             *)

\* the default of the max_retries parameter
max_retries == 3

RetryPrompts == {"Analisis mood dari teks berikut", "Ringkas ulasan berikut"}
RetryHistories == {<<>>, <<[role |-> "user", content |-> "halo"]>>}

\* what a call of invoke does: it returns a text or raises an error
InvokeReplies == {"{}", "Maaf, saya tidak bisa membantu."}
InvokeErrors == {"TimeoutError", "RateLimitError"}

RECURSIVE Pow2(_)
Pow2(n) == IF n = 0 THEN 1 ELSE 2 * Pow2(n - 1)

\* variant of the backoff that always waits one second
backoff_constant(attempt) == 1

\* 2 ** attempt
backoff_time(attempt) == Pow2(attempt)

RetryInit ==
    /\ SessionIs(FreshSession)
    /\ turn = NoTurn
    /\ srch = NoSearch
    /\ \E prompt \in RetryPrompts, conversation_history \in RetryHistories :
           probe = [op |-> "invoke_with_retry", prompt |-> prompt,
                    conversation_history |-> conversation_history,
                    pc |-> "invoke", attempt |-> 0, events |-> <<>>,
                    last_error |-> "", result |-> "", started |-> 0]

RetryUnchanged ==
    UNCHANGED <<messages, pending_confirmation, current_mood, recommendations,
                preferred_genres, disliked_genres, conversation_count, cache,
                rng, turn, srch>>

InLoop(pc) == probe.op = "invoke_with_retry" /\ probe.pc = pc

\* the call of invoke in the try block returns: the loop returns its result
InvokeReturns(reply) ==
    /\ InLoop("invoke")
    /\ probe' = [probe EXCEPT !.pc = "returned", !.result = reply,
                              !.events = Append(@, [kind |-> "invoke", at |-> now,
                                                    attempt |-> probe.attempt,
                                                    outcome |-> "returned"])]
    /\ UNCHANGED now
    /\ RetryUnchanged

\* the call of invoke raises: the error is kept, and the loop waits when
\* attempts are left, or ends and the error is raised
InvokeRaises(error) ==
    /\ InLoop("invoke")
    /\ probe' = [probe EXCEPT
                    !.pc = IF probe.attempt < max_retries - 1 THEN "sleep" ELSE "raised",
                    !.last_error = error,
                    !.events = Append(@, [kind |-> "invoke", at |-> now,
                                          attempt |-> probe.attempt,
                                          outcome |-> error])]
    /\ UNCHANGED now
    /\ RetryUnchanged

\* time.sleep(backoff_time), then the next iteration
Sleep ==
    /\ InLoop("sleep")
    /\ now' = now + backoff_time(probe.attempt)
    /\ probe' = [probe EXCEPT !.pc = "invoke", !.attempt = @ + 1,
                              !.events = Append(@, [kind |-> "sleep", at |-> now,
                                                    attempt |-> probe.attempt,
                                                    outcome |-> "slept"])]
    /\ RetryUnchanged

RetryNext ==
    \/ \E reply \in InvokeReplies : InvokeReturns(reply)
    \/ \E error \in InvokeErrors : InvokeRaises(error)
    \/ Sleep

SpecRetry == RetryInit /\ [][RetryNext]_vars

-----------------------------------------------------------------------------
(* The application: typed user turns *)

MaxTurns == 2

UserTexts ==
    {"saya capek banget hari ini", "sedih", "ya", "tidak", "ubah",
     "cari film lain dong"}

\* the vector store answers, or its similarity search fails
TurnEnvs == {OkEnv, SearchEnv("none", "vector", FALSE, TRUE)}

\* a session that saved preferences, was given recommendations and then
\* had its chat cleared
ReturningSession ==
    LET saved == update_preferences(FreshSession, <<"Comedy">>, <<"Family">>)
        offered == handle_user_input(saved, "saya capek banget hari ini",
                                     "raise", OkEnv, "sentence").s
    IN  clear_chat(handle_user_input(offered, "ya", "raise", OkEnv, "sentence").s)

Init ==
    /\ \E s \in {FreshSession, ReturningSession} : SessionIs(s)
    /\ turn = NoTurn
    /\ srch = NoSearch
    /\ probe = NoProbe

\* the branch a text takes in the session
Route(s, user_input) ==
    IF Len(s.pending_confirmation) > 0 /\ ~is_new_search_request(user_input)
    THEN parse_confirmation_response(user_input) ELSE "n/a"

\* the session and the logs after a run of handle_user_input
TurnBecomes(r) ==
    /\ SessionBecomes(r.s)
    /\ turn' = r.log
    /\ srch' = IF Len(r.search) > 0 THEN r.search[1] ELSE srch
    /\ UNCHANGED probe

\* a run of handle_user_input on a typed text; the collaborators a run does
\* not call are held at one outcome
UserTurn(user_input, mood_outcome, env, summary_outcome) ==
    /\ conversation_count < MaxTurns
    /\ IF Route(Session, user_input) = "yes"
       THEN mood_outcome = "raise"
       ELSE env = OkEnv /\ summary_outcome = "sentence"
    /\ Route(Session, user_input) = "no" => mood_outcome = "raise"
    /\ TurnBecomes(handle_user_input(Session, user_input, mood_outcome, env,
                                     summary_outcome))

Next ==
    \E t \in UserTexts, m \in MoodOutcomes, e \in TurnEnvs, o \in SummaryOutcomes :
        UserTurn(t, m, e, o)

Spec == Init /\ [][Next]_vars

-----------------------------------------------------------------------------
(* Two sessions of one server process. The variables are session A; probe  *)
(* holds session B, the history file, and session A as it would be with no *)
(* other session ("alone": its own file and its own generator), given the  *)
(* same inputs as A. rng is the generator of the random module, which the  *)
(* threads of all sessions share.                                          *)

MaxSessionTurns == 2

\* HistoryManager.HISTORY_FILE: <<>> is no file, <<list>> a file holding a
\* message list
NoFile == <<>>

\* HistoryManager.save_history: the file is overwritten
save_history(file, message_list) == <<message_list>>

\* the file after a handler that called add_message at least once: each
\* add_message saves the whole list of its session
auto_saved(file, before, after) ==
    IF after.messages # before.messages THEN save_history(file, after.messages)
    ELSE file

\* SessionManager.load_from_file on a session that has not loaded yet
load_from_file(s, file) ==
    IF Len(file) = 0 THEN s
    ELSE IF Len(file[1]) > 0 THEN [s EXCEPT !.messages = file[1]]
    ELSE s

TextsOfA == {"sedih", "ya"}
TextsOfB == {"saya capek banget hari ini", "ya"}

NoSessions ==
    [op |-> "sessions", a_open |-> FALSE, a_turns |-> 0, b |-> <<>>, b_turns |-> 0,
     file |-> NoFile, alone |-> FreshSession, alone_file |-> NoFile,
     alone_ret |-> <<>>, raced |-> FALSE]

SessionsInit ==
    SessionIs(FreshSession) /\ turn = NoTurn /\ srch = NoSearch /\ probe = NoSessions

\* session B using the generator of the process
SessionB == [probe.b[1] EXCEPT !.rng = rng]

\* the first script run of session A: initialize_app
OpenA ==
    /\ ~probe.a_open
    /\ SessionBecomes(load_from_file(Session, probe.file))
    /\ probe' = [probe EXCEPT !.a_open = TRUE,
                              !.alone = load_from_file(@, probe.alone_file)]
    /\ UNCHANGED <<turn, srch>>

\* the first script run of session B
OpenB ==
    /\ Len(probe.b) = 0
    /\ probe' = [probe EXCEPT !.b = <<load_from_file(FreshSession, probe.file)>>]
    /\ UNCHANGED <<messages, pending_confirmation, current_mood, recommendations,
                   preferred_genres, disliked_genres, conversation_count, cache,
                   now, rng, turn, srch>>

\* the latest ranked list of a run, or the one before it
RetOf(r, earlier) == IF Len(r.search) > 0 THEN r.search[1].ret ELSE earlier

\* the state after a turn of session A: r is the run, ra the run alone
TurnOfABecomes(r, ra) ==
    /\ SessionBecomes(r.s)
    /\ turn' = r.log
    /\ srch' = IF Len(r.search) > 0 THEN r.search[1] ELSE srch
    /\ probe' = [probe EXCEPT !.a_turns = @ + 1,
                              !.file = auto_saved(@, Session, r.s),
                              !.alone = ra.s,
                              !.alone_file = auto_saved(@, probe.alone, ra.s),
                              !.alone_ret = RetOf(ra, @)]

\* a turn of session A with no other thread running
TurnOfA(user_input) ==
    /\ probe.a_open /\ probe.a_turns < MaxSessionTurns
    /\ TurnOfABecomes(handle_user_input(Session, user_input, "raise", OkEnv, "sentence"),
                      handle_user_input(probe.alone, user_input, "raise", OkEnv, "sentence"))

TurnOfBBecomes(r) ==
    /\ rng' = r.s.rng
    /\ probe' = [probe EXCEPT !.b_turns = @ + 1, !.b = <<r.s>>,
                              !.file = auto_saved(@, SessionB, r.s)]
    /\ UNCHANGED <<messages, pending_confirmation, current_mood, recommendations,
                   preferred_genres, disliked_genres, conversation_count, cache,
                   now, turn, srch>>

\* a turn of session B with no other thread running
TurnOfB(user_input) ==
    /\ Len(probe.b) > 0 /\ probe.b_turns < MaxSessionTurns
    /\ TurnOfBBecomes(handle_user_input(SessionB, user_input, "raise", OkEnv, "sentence"))

\* the search environment of a ranking that draws from generator g
Intruded(g) == [OkEnv EXCEPT !.intruder = <<g>>]

RacedBecomes(r, rb, ra, last) ==
    /\ SessionBecomes([r.s EXCEPT !.rng = rb.s.rng])
    /\ turn' = r.log
    /\ srch' = r.search[1]
    /\ probe' = [probe EXCEPT !.a_turns = @ + 1, !.b_turns = @ + 1,
                              !.b = <<rb.s>>,
                              !.file = save_history(@, IF last = "a" THEN r.s.messages
                                                       ELSE rb.s.messages),
                              !.alone = ra.s,
                              !.alone_file = auto_saved(@, probe.alone, ra.s),
                              !.alone_ret = RetOf(ra, @),
                              !.raced = TRUE]

\* the runs of A and B when B seeded the generator as seeded before A drew
\* drawn_by_a values
RacedRuns(seeded, drawn_by_a, last) ==
    RacedBecomes(handle_user_input(Session, "ya", "raise", Intruded(seeded), "sentence"),
                 handle_user_input(SessionB, "ya", "raise",
                                   Intruded([seeded EXCEPT !.pos = @ + drawn_by_a]),
                                   "sentence"),
                 handle_user_input(probe.alone, "ya", "raise", OkEnv, "sentence"),
                 last)

\* a0 and b0 are the searches the two runs make
RacedFrom(a0, b0, last) ==
    /\ Len(a0) > 0 /\ Len(b0) > 0
    /\ RacedRuns(SeedFrom(b0[1].context_hash, rng), Len(a0[1].ranked_input), last)

\* both sessions accept their offers and their threads rank at once: A
\* seeds, B seeds, A draws, B draws. The file is left by the thread that
\* saves last.
RacedSearches(last) ==
    /\ probe.a_open /\ probe.a_turns < MaxSessionTurns
    /\ Len(probe.b) > 0 /\ probe.b_turns < MaxSessionTurns
    /\ Route(Session, "ya") = "yes" /\ Route(SessionB, "ya") = "yes"
    /\ RacedFrom(handle_user_input(Session, "ya", "raise", OkEnv, "sentence").search,
                 handle_user_input(SessionB, "ya", "raise", OkEnv, "sentence").search,
                 last)

SessionsNext ==
    \/ OpenA
    \/ OpenB
    \/ \E t \in TextsOfA : TurnOfA(t)
    \/ \E t \in TextsOfB : TurnOfB(t)
    \/ \E last \in {"a", "b"} : RacedSearches(last)

SpecSessions == SessionsInit /\ [][SessionsNext]_vars

-----------------------------------------------------------------------------
(* Properties of the retriever *)

\* a step taken by search_by_genres: it alone writes srch, cache and rng here
SearchStep == <<srch, cache, rng>>' # <<srch, cache, rng>>

ReturnedTitles == {srch.ret[i].title : i \in 1..Len(srch.ret)}

FreshCandidates == SelectSeq(srch.candidates, LAMBDA t : t \notin srch.history)

\* C7 as stated: search_by_genres returns a title of the recommendation
\* history only if the vector store returned no candidate outside the history.
C7_HistoryOnlyIfNoOther ==
    ReturnedTitles \cap srch.history # {}
        => \A i \in 1..Len(srch.candidates) : srch.candidates[i] \in srch.history

\* C7: when the list is computed (not served from the cache), titles of the
\* history are left out exactly when at least limit candidates are outside
\* the history or nothing had to be left out; when fewer than limit candidates
\* are outside the history and one is inside, the whole candidate list is
\* ranked, so that with at most limit candidates every titled one is returned.
C7_ExcludedOnlyWhenEnoughRemain ==
    (~srch.from_cache /\ ~srch.raised /\ Len(srch.candidates) > 0) =>
        /\ (Len(FreshCandidates) >= srch.limit
                \/ Len(FreshCandidates) = Len(srch.candidates))
            => /\ srch.ranked_input = FreshCandidates
               /\ ReturnedTitles \cap srch.history = {}
        /\ (Len(FreshCandidates) < srch.limit
                /\ Len(FreshCandidates) < Len(srch.candidates))
            => /\ srch.ranked_input = srch.candidates
               /\ (Len(srch.candidates) <= srch.limit
                     => ReturnedTitles = Range(srch.candidates) \ {""})

\* history [A], candidates [A, B], limit 5: both A and B are returned
C7_Witness ==
    /\ srch.history = {"A"}
    /\ srch.candidates = <<"A", "B">>
    /\ srch.limit = 5
    /\ ~srch.from_cache
    /\ ReturnedTitles = {"A", "B"}

FilterOnlyHits ==
    qdrant_search_by_genres(genre_names_to_ids(srch.genre_names), 100,
                            srch.env.filter_ok)

\* C8 as stated: with a non-blank query text, when the embedding step or the
\* similarity search fails, the filter-only genre query is issued and its
\* results are ranked without semantic scores; the result is empty only if
\* the filter-only query yields nothing.
C8_FailureFallsBackToFilter ==
    (/\ Strip(srch.query_text) # ""
     /\ ~srch.from_cache
     /\ srch.env.fault = "none"
     /\ Len(genre_names_to_ids(srch.genre_names)) > 0
     /\ (srch.env.embed # "vector" \/ ~srch.env.semantic_ok))
        => /\ srch.filter_called
           /\ ~srch.semantic_called \/ srch.candidates = Titles(FilterOnlyHits)
           /\ (srch.ret = <<>> => FilterOnlyHits = <<>>)

\* C9 as stated: when a stage raises, search_by_genres returns the empty list
\* and leaves the cache and the recommendation history as they were.
C9_FailureLeavesCacheUntouched ==
    [][(SearchStep /\ srch'.raised)
          => /\ srch'.ret = <<>>
             /\ cache' = cache
             /\ recommendations' = recommendations]_vars

\* C9: when a stage raises, search_by_genres returns the empty list, leaves
\* the recommendation history as it was and writes no cache entry; the only
\* change to the cache is the removal, by the lookup, of an expired entry.
C9_FailureWritesNothing ==
    [][(SearchStep /\ srch'.raised)
          => /\ srch'.ret = <<>>
             /\ recommendations' = recommendations
             /\ \A k \in DOMAIN cache' : k \in DOMAIN cache /\ cache'[k] = cache[k]
             /\ \A k \in DOMAIN cache \ DOMAIN cache' : CacheExpired(cache, k, now)]_vars

\* the ranking raised while a cache entry was present
C9_Witness ==
    /\ srch.raised
    /\ srch.env.fault = "rank"
    /\ srch.ret = <<>>
    /\ DOMAIN cache # {}

SearchKey(log) == _get_cache_key("movie_search", log.cache_key)

\* C10: a personalized call never returns the cached list and never writes
\* the cache, and queries the vector store whenever it gets past the genre
\* codec; a non-personalized call that finds an unexpired entry under its key
\* returns that entry's list unchanged without querying the vector store.
C10_PersonalizedBypassesCache ==
    [][SearchStep =>
          /\ srch'.personalize =>
                /\ ~srch'.from_cache
                /\ \A k \in DOMAIN cache' : k \in DOMAIN cache /\ cache'[k] = cache[k]
                /\ (~srch'.raised /\ Len(genre_names_to_ids(srch'.genre_names)) > 0)
                      => (srch'.semantic_called \/ srch'.filter_called)
          /\ (/\ ~srch'.personalize
              /\ srch'.env.fault # "cache_get"
              /\ CacheLive(cache, SearchKey(srch'), now))
                => /\ srch'.from_cache
                   /\ srch'.ret = cache[SearchKey(srch')].value
                   /\ ~srch'.semantic_called /\ ~srch'.filter_called
                   /\ cache' = cache]_vars

\* a personalized call computed its list although an unexpired entry existed
C10_Witness ==
    /\ srch.personalize
    /\ CacheLive(cache, SearchKey(srch), now)
    /\ ~srch.from_cache
    /\ srch.semantic_called \/ srch.filter_called
    /\ Len(srch.ret) > 0

-----------------------------------------------------------------------------
(* Properties of the confirmation gate. turn is the log of the latest run *)
(* of handle_user_input and srch the log of the latest search.            *)

\* the offer stored for a judgment
Offer(j) == [genres |-> j.recommended_genres, mood_result |-> j]

\* the offer of the judgment the session holds as its current mood
OfferOfCurrentMood ==
    Len(current_mood) = 1 /\ pending_confirmation = <<Offer(current_mood[1])>>

LastMessage == messages[Len(messages)]

NewSearchText == "cari film lain dong"

C2_YesSearchesTheOffer ==
    turn.classification = "yes" =>
        /\ Len(turn.offered) = 1
        /\ turn.search_calls = 1
        /\ srch.genre_names = turn.offered[1].genres
        /\ srch.query_text = search_query_text(turn.offered[1].mood_result,
                                               turn.offered[1].genres)
        /\ srch.limit = 5
        /\ srch.personalize
        /\ turn.analyze_calls = 0
        /\ pending_confirmation = <<>>
        /\ turn.shown = <<>> => LastMessage.content = NoMoviesMessage
        /\ turn.shown # <<>> => LastMessage.metadata[1].movies = turn.shown

C2_Witness ==
    /\ turn.classification = "yes"
    /\ srch.genre_names = <<"Horror", "Science Fiction">>
    /\ turn.shown = <<>>
    /\ pending_confirmation = <<>>

C4_NoOnlyDeclines ==
    [][(turn' # turn /\ turn'.classification = "no") =>
          /\ pending_confirmation # <<>>
          /\ pending_confirmation' = <<>>
          /\ turn'.analyze_calls = 0
          /\ turn'.search_calls = 0
          /\ srch' = srch
          /\ current_mood' = current_mood
          /\ recommendations' = recommendations
          /\ preferred_genres' = preferred_genres
          /\ disliked_genres' = disliked_genres
          /\ messages' = messages \o
                <<[role |-> "user", content |-> turn'.text, metadata |-> <<>>],
                  [role |-> "assistant", content |-> DeclineMessage,
                   metadata |-> <<>>]>>]_vars

C4_Witness ==
    /\ turn.classification = "no"
    /\ pending_confirmation = <<>>
    /\ Len(current_mood) = 1
    /\ Len(recommendations) > 0
    /\ Len(preferred_genres) > 0
    /\ Len(disliked_genres) > 0

TiredText == "saya capek banget hari ini"

TiredJudgment ==
    [detected_moods |-> <<"lelah">>, intensity_score |-> 65,
     emotion_type |-> "negative", recommended_genres |-> <<"Comedy", "Family", "Animation">>]

\* the four fields of a judgment the scenario names
Named(j) == [f \in DOMAIN TiredJudgment |-> j[f]]

\* C6: when every completion fails, the tiredness text yields the judgment
\* {[lelah], 65, negative, [Comedy, Family, Animation]} and its offer is
\* pending; "ya" then searches exactly those genres with limit 5 and shows
\* at most 5 movies, each with a review summary that is a non-empty string.
C6_TiredThenYes ==
    /\ (turn.text = TiredText /\ turn.llm_calls = 3) =>
          /\ Named(current_mood[1]) = TiredJudgment
          /\ OfferOfCurrentMood
          /\ LastMessage.metadata[1].type = "confirmation"
    /\ (turn.text = "ya" /\ Len(turn.offered) = 1
            /\ turn.offered[1].mood_result.user_input = TiredText
            /\ Named(turn.offered[1].mood_result) = TiredJudgment) =>
          /\ turn.classification = "yes"
          /\ srch.genre_names = <<"Comedy", "Family", "Animation">>
          /\ srch.limit = 5
          /\ Len(turn.shown) <= 5
          /\ \A i \in 1..Len(turn.shown) : Len(turn.shown[i].review_summary) > 0
          /\ pending_confirmation = <<>>

C6_Witness ==
    /\ turn.text = "ya"
    /\ Len(turn.offered) = 1
    /\ turn.offered[1].mood_result.user_input = TiredText
    /\ Named(turn.offered[1].mood_result) = TiredJudgment
    /\ Len(turn.shown) \in 1..5
    /\ \E i \in 1..Len(turn.shown) :
          /\ Len(turn.shown[i].raw_payload.raw_reviews) > 0
          /\ turn.shown[i].review_summary =
                 _fallback_summary(turn.shown[i].raw_payload.raw_reviews)
    /\ LastMessage.metadata[1].movies = turn.shown

-----------------------------------------------------------------------------
(* Properties of the ranking *)

\* C11: every entry _score_and_rank returns carries a non-empty mapping as
\* its raw payload and a non-empty title, comes from a candidate that is a
\* mapping with a title, and the output has at most limit entries.
C11_RankedEntriesAreValid ==
    probe.op = "rank" =>
        /\ Len(probe.result) <= probe.inputs.limit
        /\ \A i \in 1..Len(probe.result) :
              /\ is_dict(probe.result[i].raw_payload)
              /\ DOMAIN probe.result[i].raw_payload # {}
              /\ probe.result[i].title # ""
              /\ \E j \in 1..Len(probe.inputs.movies) :
                    /\ is_dict(probe.inputs.movies[j])
                    /\ probe.inputs.movies[j] = probe.result[i].raw_payload
                    /\ probe.inputs.movies[j].title = probe.result[i].title

\* a list with a non-mapping and an untitled candidate, cut to the limit
C11_Witness ==
    /\ probe.op = "rank"
    /\ \E j \in 1..Len(probe.inputs.movies) : ~is_dict(probe.inputs.movies[j])
    /\ \E j \in 1..Len(probe.inputs.movies) :
          is_dict(probe.inputs.movies[j]) /\ probe.inputs.movies[j].title = ""
    /\ probe.inputs.limit = 3
    /\ Len(probe.result) = 3

\* C12 as stated: a call of _score_and_rank with a non-empty context hash
\* returns the same entries, in the same order and with the same scores, as
\* an earlier call with the same candidates, limit, flags, preferences and
\* context hash, whatever calls were made in between.
C12_SameContextSameRanking ==
    (/\ probe.op = "rank"
     /\ probe.ref # <<>>
     /\ probe.inputs = probe.ref[1].inputs
     /\ probe.inputs.context_hash # "")
        => probe.result = probe.ref[1].result

-----------------------------------------------------------------------------
(* Properties of the mood inference. probe holds the input and the output   *)
(* of the latest direct call.                                               *)

\* C13: every judgment _parse_response returns, on the primary and on the
\* aggressive extraction path, has an intensity_score between 0 and 100.
C13_ParsedIntensityInRange ==
    (Returned("_parse_response") /\ ~probe.output.raised) =>
        /\ "intensity_score" \in DOMAIN probe.output.result
        /\ probe.output.result.intensity_score >= 0
        /\ probe.output.result.intensity_score <= 100

\* C14: _parse_response returns a result only if the response's object has
\* all five required fields; a response lacking one makes it raise.
C14_ParsedHasRequiredFields ==
    (Returned("_parse_response") /\ ~probe.output.raised) =>
        \A i \in 1..Len(required_fields) :
            required_fields[i] \in DOMAIN probe.output.result

\* the categories in the order of C17, with the moods and the intensity of each
FallbackOrder ==
    << [words |-> grief_words, moods |-> <<"sedih", "sakit">>, intensity |-> 95],
       [words |-> sickness_words, moods |-> <<"sakit", "lelah">>, intensity |-> 70],
       [words |-> tiredness_words, moods |-> <<"lelah">>, intensity |-> 65],
       [words |-> sadness_words, moods |-> <<"sedih">>, intensity |-> 75],
       [words |-> happiness_words, moods |-> <<"senang", "excited">>, intensity |-> 80],
       [words |-> anger_words, moods |-> <<"marah", "frustrasi">>, intensity |-> 70],
       [words |-> anxiety_words, moods |-> <<"cemas">>, intensity |-> 65],
       [words |-> boredom_words, moods |-> <<"bosan">>, intensity |-> 55],
       [words |-> {""}, moods |-> <<"netral">>, intensity |-> 50] >>

\* the first category of the order with a keyword in the lower-cased text
FirstCategory(text) ==
    CHOOSE k \in 1..9 :
        /\ AnyIn(Lower(text), FallbackOrder[k].words)
        /\ \A j \in 1..(k - 1) : ~AnyIn(Lower(text), FallbackOrder[j].words)

\* C17: _fallback_analysis returns the tuple of the first category, in the
\* order grief, sickness, tiredness, sadness, happiness, anger, anxiety,
\* boredom, neutral, that has a keyword in the text (so a grief keyword gives
\* intensity 95 and the moods sedih and sakit whatever else the text holds),
\* and the tuple has every field.
C17_FirstMatchWins ==
    Returned("_fallback_analysis") =>
        /\ probe.output.detected_moods = FallbackOrder[FirstCategory(probe.input)].moods
        /\ probe.output.intensity_score
               = FallbackOrder[FirstCategory(probe.input)].intensity
        /\ \A i \in 1..Len(required_fields) : required_fields[i] \in DOMAIN probe.output
        /\ probe.output.emotion_type \in {"positive", "neutral", "negative"}
        /\ probe.output.summary # ""
        /\ Len(probe.output.recommended_genres) >= 2

\* a text with a grief keyword and a sadness keyword got the grief tuple
C17_Witness ==
    /\ Returned("_fallback_analysis")
    /\ AnyIn(Lower(probe.input), grief_words)
    /\ AnyIn(Lower(probe.input), sadness_words)
    /\ probe.output.intensity_score = 95
    /\ probe.output.detected_moods = <<"sedih", "sakit">>

-----------------------------------------------------------------------------
(* Properties of the mood cache *)

\* the dictionaries _parse_response can return for the completions
ParsedResults == {ParsedReply[k].result : k \in {x \in ReplyKinds : ~ParsedReply[x].raised}}

\* C16: with a non-empty history analyze neither reads nor writes the mood
\* cache; without history it stores only results parsed from the completion,
\* never a fallback judgment; and a history-free call on a text whose entry
\* has not expired returns the stored result without calling the completion.
C16_MoodCacheDiscipline ==
    /\ \A k \in DOMAIN cache : k[1] = "mood_analysis" => cache[k].value \in ParsedResults
    /\ probe.op = "analyze" =>
           /\ probe.others_kept
           /\ Len(probe.conversation_history) > 0 =>
                  /\ probe.entry_after = probe.entry_before
                  /\ ~probe.from_cache
                  /\ probe.llm_calls > 0
           /\ probe.entry_after # probe.entry_before =>
                  \/ probe.from_llm /\ probe.entry_after[1].value = probe.result
                  \/ probe.entry_after = <<>> /\ probe.at > probe.entry_before[1].expires_at
           /\ (/\ Len(probe.conversation_history) = 0
               /\ probe.entry_before # <<>>
               /\ probe.at <= probe.entry_before[1].expires_at) =>
                  /\ probe.llm_calls = 0
                  /\ probe.result = probe.entry_before[1].value

-----------------------------------------------------------------------------
(* Properties of the review summarizer *)

\* C19: summarize always returns a non-empty string, whatever the shape of
\* its input and whatever the completion capability does; it calls the
\* completion capability at most once, and not at all when normalization
\* yields no review.
C19_SummarizeAlwaysAnswers ==
    probe.op = "summarize" =>
        /\ Len(probe.summary) > 0
        /\ probe.llm_calls <= 1
        /\ Len(probe.reviews) = 0 => probe.llm_calls = 0
        /\ probe.llm_calls = 1 =>
               \/ probe.outcome # "raise" /\ probe.summary = CleanedReply[probe.outcome]
               \/ probe.summary = _fallback_summary(probe.reviews)

\* the completion answered a list of reviews with an empty text and the
\* heuristic summary was returned after one call
C19_Witness ==
    /\ probe.op = "summarize"
    /\ probe.raw_reviews.type = "list"
    /\ probe.outcome = "empty"
    /\ probe.llm_calls = 1
    /\ probe.summary = "Netizen bilang filmnya bagus banget!"

\* C20 as stated: of two calls with the same raw input, the second made
\* within two hours of the first, the second returns the string of the
\* first and does not call the completion capability.
C20_SameInputWithinTwoHours ==
    (/\ probe.op = "summarize"
     /\ probe.prev # <<>>
     /\ probe.at - probe.prev[1].at <= ReviewSummaryTTL) =>
        /\ probe.summary = probe.prev[1].summary
        /\ probe.llm_calls = 0

\* C20, amended: of two calls with the same raw input, the second made
\* before the cache entry that the first call read or wrote expires, the
\* second returns the string of the first and does not call the completion
\* capability; so does the second of two calls whose input has no review.
C20_SameInputBeforeExpiry ==
    (/\ probe.op = "summarize"
     /\ probe.prev # <<>>
     /\ \/ Len(probe.reviews) = 0
        \/ /\ probe.prev[1].entry_after # <<>>
           /\ probe.at <= probe.prev[1].entry_after[1].expires_at) =>
        /\ probe.summary = probe.prev[1].summary
        /\ probe.llm_calls = 0

\* a second call found the summary of the first in the cache while the
\* completion would have answered differently
C20_Witness ==
    /\ probe.op = "summarize"
    /\ probe.prev # <<>>
    /\ probe.at > probe.prev[1].at
    /\ probe.outcome = "raise"
    /\ probe.summary = LlmSummary
    /\ probe.llm_calls = 0

-----------------------------------------------------------------------------
(* Properties of the genre codec *)

\* C18: for every list of distinct valid genre names, in any letter case,
\* genre_ids_to_names(genre_names_to_ids(names)) is the list of the same
\* names in title case, in the same order and of the same length.
C18_RoundTripKeepsNames ==
    Returned("genre_codec") =>
        /\ Len(probe.output) = Len(probe.input)
        /\ \A i \in 1..Len(probe.input) : probe.output[i] = Title(probe.input[i])

-----------------------------------------------------------------------------
(* Properties of the retry loop *)

Invocations(events) == SelectSeq(events, LAMBDA e : e.kind = "invoke")
Sleeps(events) == SelectSeq(events, LAMBDA e : e.kind = "sleep")

\* C15: invoke_with_retry calls the completion at most 3 times; it returns
\* the first successful result without another call; it waits 1 second after
\* the first failure and 2 seconds after the second, and does not wait after
\* the last; when all 3 attempts fail it raises the error of the last one.
C15_RetryAtMostThreeTimes ==
    probe.op = "invoke_with_retry" =>
        LET events == probe.events
            calls == Invocations(events)
        IN  /\ Len(calls) <= 3
            \* calls and waits alternate, and every call before the latest failed
            /\ \A i \in 1..Len(events) :
                   /\ events[i].kind = (IF i % 2 = 1 THEN "invoke" ELSE "sleep")
                   /\ (events[i].kind = "invoke" /\ i < Len(events))
                          => events[i].outcome \in InvokeErrors
            \* the waits: 1 second after the first failure, 2 after the second
            /\ Len(Sleeps(events)) <= 2
            /\ \A i \in 1..Len(events) :
                   (events[i].kind = "sleep" /\ i < Len(events)) =>
                       events[i + 1].at - events[i].at = (IF i = 2 THEN 1 ELSE 2)
            \* a success ends the loop with that result
            /\ (Len(events) > 0 /\ events[Len(events)].outcome = "returned")
                   => probe.pc = "returned"
            /\ probe.pc = "returned" =>
                   /\ events[Len(events)].outcome = "returned"
                   /\ probe.result \in InvokeReplies
            \* three failures end it with the third error, and no wait follows
            /\ probe.pc = "raised" <=>
                   (Len(calls) = 3 /\ calls[3].outcome \in InvokeErrors)
            /\ probe.pc = "raised" =>
                   /\ probe.last_error = calls[3].outcome
                   /\ events[Len(events)].kind = "invoke"
                   /\ now - probe.started = 3

\* three attempts failed with different errors and the last one was raised
C15_Witness ==
    /\ probe.op = "invoke_with_retry"
    /\ probe.pc = "raised"
    /\ Len(Invocations(probe.events)) = 3
    /\ probe.events[1].outcome = "TimeoutError"
    /\ probe.last_error = "RateLimitError"
    /\ now = 3

-----------------------------------------------------------------------------
(* Properties of the reply classifier *)

-----------------------------------------------------------------------------
(* Properties of a user turn *)

\* the user-role messages of a list that carry a text
UserMessages(list, text) ==
    SelectSeq(list, LAMBDA m : m.role = "user" /\ m.content = text)

\* C30: on every path of handle_user_input one user turn appends exactly
\* one user-role message carrying the user's text and adds exactly 1 to
\* conversation_count.
C30_OneUserMessagePerTurn ==
    [][/\ conversation_count' = conversation_count + 1
       /\ Len(UserMessages(messages', turn'.text))
              = Len(UserMessages(messages, turn'.text)) + 1
       /\ Len(SelectSeq(messages', LAMBDA m : m.role = "user"))
              = Len(SelectSeq(messages, LAMBDA m : m.role = "user")) + 1]_vars

\* C22: when a failure escapes the fallback paths of handle_user_input, the
\* message appended for the user is a fixed text that holds neither the
\* message nor the type of the exception.
C22_FailureShowsFixedMessage ==
    turn.raised =>
        /\ LastMessage.role = "assistant"
        /\ ~Contains(LastMessage.content, ErrorText)
        /\ ~Contains(LastMessage.content, "StreamlitAPIException")

\* the external id of a shown movie can be read from its top-level field or
\* from its raw payload
HasExternalId(movie) == movie.tmdb_id # 0 \/ movie.raw_payload.tmdb_id # 0

\* C23: every movie a yes turn shows and attaches to the recommendation
\* message has an external id, at top level or in its raw payload, and the
\* list shown is the list stored as the session's recommendation history.
C23_ShownMoviesAreStored ==
    (turn.classification = "yes" /\ Len(turn.shown) > 0) =>
        /\ \A i \in 1..Len(turn.shown) : HasExternalId(turn.shown[i])
        /\ LastMessage.metadata[1].movies = turn.shown
        /\ recommendations = turn.shown

-----------------------------------------------------------------------------
(* Properties of the history exclusion *)

\* the exclusion stands: enough candidates are outside the history, or none
\* is inside
ExclusionKept ==
    Len(FreshCandidates) >= srch.limit \/ Len(FreshCandidates) = Len(srch.candidates)

\* C24: the list search_by_genres hands to the ranking is the candidates
\* outside the history exactly when at least limit of them are outside or
\* none was excluded; when the exclusion removes a candidate and leaves fewer
\* than limit, it is the whole candidate list, titles of the history included.
C24_ExclusionKeptOrSkipped ==
    (~srch.from_cache /\ ~srch.raised /\ Len(srch.candidates) > 0) =>
        /\ srch.ranked_input = (IF ExclusionKept THEN FreshCandidates ELSE srch.candidates)
        /\ ~ExclusionKept <=> (\E i \in 1..Len(srch.ranked_input) :
                                   srch.ranked_input[i] \in srch.history)

\* one of two candidates was in the history and the limit was 1: the
\* exclusion stood and only the other candidate was ranked
C24_Witness ==
    /\ ~srch.from_cache
    /\ srch.limit = 1
    /\ Len(srch.candidates) = 2
    /\ Len(FreshCandidates) = 1
    /\ srch.ranked_input = FreshCandidates
    /\ Len(srch.ret) = 1

\* the candidates no accepted search had stored before the latest search
NeverRecommended == SelectSeq(srch.candidates, LAMBDA t : t \notin probe.before)

\* C25 as stated: a title stored by any earlier accepted search is left out
\* of a later search's output whenever at least limit candidates were never
\* recommended.
C25_EverRecommendedExcluded ==
    (probe.op = "history" /\ Len(NeverRecommended) >= srch.limit)
        => ReturnedTitles \cap probe.before = {}

\* C25, amended: each accepted search that returns a movie replaces the
\* recommendation history, so a later search leaves out the titles of the
\* latest such search only, whenever at least limit candidates are outside
\* that history.
C25_LatestSearchExcluded ==
    probe.op = "history" =>
        /\ srch.history \subseteq probe.before
        /\ Len(FreshCandidates) >= srch.limit => ReturnedTitles \cap srch.history = {}
        /\ Len(srch.ret) > 0 =>
               {recommendations[i].title : i \in 1..Len(recommendations)}
                   = {srch.ret[i].title : i \in {j \in 1..Len(srch.ret) :
                                                    HasExternalId(srch.ret[j])}}

\* a title stored by an accepted search before the latest one was returned
\* again although limit candidates had never been recommended
C25_Witness ==
    /\ probe.op = "history"
    /\ Len(NeverRecommended) >= srch.limit
    /\ ReturnedTitles \cap (probe.before \ srch.history) # {}
    /\ ReturnedTitles \cap srch.history = {}

-----------------------------------------------------------------------------
(* Properties of the review summary cache *)

\* the summaries _generate_summary accepts from the completion capability
AcceptedSummaries ==
    {CleanedReply[o] : o \in {x \in SummaryReplyKinds : valid_summary(CleanedReply[x])}}

\* C26: summarize stores a summary only when an accepted completion
\* response produced it; the heuristic sentence, the no-reviews message and
\* the exception default are never stored, so a later call with the same
\* input and reviews calls the completion capability again.
C26_OnlyAcceptedSummariesCached ==
    /\ \A k \in DOMAIN cache :
           k[1] = "review_summary" => cache[k].value \in AcceptedSummaries
    /\ (/\ probe.op = "summarize"
        /\ probe.prev # <<>>
        /\ probe.prev[1].summary \notin AcceptedSummaries
        /\ Len(probe.reviews) > 0) => probe.llm_calls = 1

-----------------------------------------------------------------------------
(* Properties of the cache *)

\* C27: get returns the value most recently set for its namespace and key
\* exactly when the read is no later than that set's time plus its ttl; a
\* later read returns nothing and removes the entry, and so does every read
\* until the next set; what a set stores under one namespace and key does
\* not change what get returns for another, whose entries have other names.
C27_GetReturnsLatestUntilExpiry ==
    /\ probe.op = "get" =>
           /\ probe.returned =
                  (IF /\ probe.name \in DOMAIN probe.sets
                      /\ probe.at <= probe.sets[probe.name].at + probe.sets[probe.name].ttl
                   THEN <<probe.sets[probe.name].value>> ELSE <<>>)
           /\ probe.returned = <<>>
                  <=> _get_cache_key(probe.name[1], probe.name[2]) \notin DOMAIN cache
    /\ KeyDataDistinct

\* a value was read back at the very second it expires, after another value
\* had been set under the same key in another namespace
C27_Witness ==
    /\ probe.op = "get"
    /\ probe.name = <<"movie_search", "Comedy-5">>
    /\ probe.returned = <<"v1">>
    /\ probe.at = probe.sets[probe.name].at + probe.sets[probe.name].ttl
    /\ probe.at > 0
    /\ <<"review_summary", "Comedy-5">> \in DOMAIN probe.sets
    /\ probe.sets[<<"review_summary", "Comedy-5">>].value = "v2"

-----------------------------------------------------------------------------
(* Properties of the personalization *)

\* the ids of the genres a list of names of the editor stands for
GenreIdsOf(names) == {GenreMapGet(Lower(names[i])) : i \in 1..Len(names)}

\* the score of a title in a ranked list, in hundredths
ScoreOf(ranked, title) ==
    ranked[CHOOSE i \in 1..Len(ranked) : ranked[i].title = title].score

\* C28: with personalization, base score and jitter being equal, the score
\* of a candidate is 0.5 higher for each of its genre ids whose genre is
\* liked and 0.8 lower for each whose genre is disliked, for every name the
\* editor offers, "Science Fiction" and "Sci-Fi" included; without
\* personalization the preferences do not change the output.
C28_PreferencesShiftScores ==
    probe.op = "personalize" =>
        /\ {probe.result[i].title : i \in 1..Len(probe.result)}
               = {probe.plain[i].title : i \in 1..Len(probe.plain)}
        /\ probe.personalize =>
               \A i \in 1..Len(probe.result) :
                   probe.result[i].score - ScoreOf(probe.plain, probe.result[i].title)
                       = 50 * Cardinality(Range(probe.result[i].raw_payload.genre_ids)
                                              \cap GenreIdsOf(probe.liked))
                         - 80 * Cardinality(Range(probe.result[i].raw_payload.genre_ids)
                                                \cap GenreIdsOf(probe.disliked))
        /\ ~probe.personalize => probe.result = probe.plain

-----------------------------------------------------------------------------
(* Properties of concurrent sessions *)

\* C21: the messages, the pending offer, the recommendation history and the
\* ranked list with its jittered scores of session A are what they are when
\* no other session runs, whatever session B does between or during the
\* steps of A.
C21_SessionsIsolated ==
    (probe.op = "sessions" /\ probe.a_open) =>
        /\ messages = probe.alone.messages
        /\ pending_confirmation = probe.alone.pending_confirmation
        /\ recommendations = probe.alone.recommendations
        /\ srch.ret = probe.alone_ret

====
